---- MODULE Spec2Model ----
(***************************************************************************)
(* Emotion fusion and safety screening of the wellness companion.          *)
(*                                                                         *)
(* Numbers.  Python floats are modelled by exact scaled integers:          *)
(*   - an emotion score s is the integer s * ScoreScale (units of 1e-4);   *)
(*   - a fusion weight w is the integer w * weight_unit; the engine starts *)
(*     with weight_unit = WeightScale (units of 1e-2);                     *)
(*   - an unrounded intensity i is the integer i * IntensityOne, the       *)
(*     common denominator of 0.4 * (d / 6.7) + 0.3 * nf + 0.3 * vi;        *)
(*   - a rounded intensity or confidence is in units of 1e-3.              *)
(* round(x, n) rounds the binary float, so a value that is an exact        *)
(* decimal tie goes up or down depending on its binary representation:     *)
(* RoundChoices gives both neighbours at a tie and the nearest otherwise.  *)
(*                                                                         *)
(* Strings are TLA+ strings; substring tests, lower() and " ".join() are   *)
(* computed character by character.                                        *)
(***************************************************************************)
EXTENDS Integers, Sequences, FiniteSets, TLC

VARIABLES
    pc,               \* position of the caller: "idle", or the call that has returned
    hash_order,       \* iteration order of a set of label strings in this process
    voice_weight,     \* EmotionFusion.voice_weight
    text_weight,      \* EmotionFusion.text_weight
    voice_emotion,    \* the EmotionResult handed to fuse_emotions
    text_emotion,     \* the TextEmotionResult handed to fuse_emotions
    fused,            \* the FusedEmotionResult fuse_emotions returned
    transcribed_text, \* the transcript handed to check_safety
    safety,           \* the SafetyCheckResult check_safety returned
    probe,            \* the two intensities handed to _get_intensity_level
    probe_level,      \* the two levels _get_intensity_level returned
    weight_unit,      \* the weights are voice_weight / weight_unit and text_weight / weight_unit
    thresholds,       \* EmotionFusion.mild_threshold .. crisis_threshold
    raised,           \* the exception the last call raised, "None" if it returned
    fused_again,      \* what a second fuse_emotions call on the same estimates returned
    count,            \* the count handed to get_all_suggestions
    suggestion,       \* the key of the activity get_suggestion returned
    suggestions,      \* the keys of the activities get_all_suggestions returned
    suggestion_text,  \* the text get_suggestion_text returned
    trace,            \* the stage starts and ends of the current run of process, in order
    response_context, \* the ResponseContext create_context built
    full_system,      \* the parts of the system prompt generate_response assembled
    composed,         \* the text generate_response returned
    reply,            \* empathetic_response once the resource text is appended
    spoken,           \* the text handed to tts.synthesize
    response_audio_path, \* what tts.synthesize returned
    result,           \* the PipelineResult process returned
    generator,        \* EmpathyResponseGenerator: llm_provider, anthropic_client, client
    backend_reply,    \* what the provider's backend did with the request
    detectors,        \* is_available of the five voice detectors
    cascade_index,    \* position of detect_emotion_from_file in its list of detectors
    invoked,          \* the detectors whose detect_emotion was awaited, in order
    last_outcome,     \* what the last awaited detect_emotion did
    detected          \* the EmotionResult detect_emotion_from_file returned

\* the fields of the engine besides the weights
engine_fields == <<weight_unit, thresholds>>

\* what the wellness engine was handed and returned
wellness_vars == <<count, suggestion, suggestions, suggestion_text>>

\* what a run of process builds after the safety check
orchestrator_vars ==
    <<trace, response_context, full_system, composed, reply, spoken, response_audio_path, result>>

\* the cascading voice detector and its current call
detector_vars == <<detectors, cascade_index, invoked, last_outcome, detected>>

\* the collaborators of the orchestrator, besides the fusion, safety and wellness engines
collaborators == <<orchestrator_vars, generator, backend_reply, detector_vars>>

vars == <<pc, hash_order, voice_weight, text_weight, voice_emotion, text_emotion,
          fused, transcribed_text, safety, probe, probe_level, engine_fields,
          raised, fused_again, wellness_vars, collaborators>>

-----------------------------------------------------------------------------
(* Scales *)

ScoreScale == 100 * 100
WeightScale == 10 * 10
MilliScale == 10 * 100

(* Bounds of the model *)

\* largest number of negated keywords in a transcript (text_emotion.py adds 0.2
\* to "neutral" for each of them)
MaxNegated == 9
\* largest number of sentences in a transcript
MaxSentences == 2
\* _get_intensity_level is probed at k / ProbeSteps for k in -1 .. ProbeSteps
ProbeSteps == 20
\* largest count handed to get_all_suggestions
MaxCount == 12
\* adjust_weights is followed while the weights, as fractions in lowest terms
\* over one denominator, have a denominator of at most MaxWeightUnit
MaxWeightUnit == 20

-----------------------------------------------------------------------------
(* configs/config.py *)

\* config.emotion.emotions ("Supported emotions")
supported_emotions ==
    <<"sadness", "anger", "fear", "anxiety", "joy", "neutral", "confusion", "frustration">>

default_voice_weight == 65
default_text_weight == 35

mild_threshold == 3000
moderate_threshold == 5000
high_threshold == 7000
crisis_threshold == 8500

crisis_keywords ==
    << "suicide", "kill myself", "end it all", "don't want to live",
       "hurt myself", "self harm", "no point", "give up",
       "hopeless", "can't go on", "want to die", "ending my life" >>

crisis_resources ==
    << <<"US", "988 Suicide & Crisis Lifeline: Call or text 988">>,
       <<"UK", "Samaritans: 116 123">>,
       <<"India", "iCall: 9152987821 | Vandrevala Foundation: 1860-2662-345">>,
       <<"International", "Find your local helpline at findahelpline.com">> >>

-----------------------------------------------------------------------------
(* Python built-ins *)

\* dict.get(key, 0)
Get(d, k) == IF k \in DOMAIN d THEN d[k] ELSE 0

\* round(x / q): the integers a float holding x / q can round to
RoundChoices(x, q) ==
    LET f == x \div q
        r == x % q
    IN  IF 2 * r < q THEN {f}
        ELSE IF 2 * r > q THEN {f + 1}
        ELSE {f, f + 1}

UpperToLower ==
    [A |-> "a", B |-> "b", C |-> "c", D |-> "d", E |-> "e", F |-> "f", G |-> "g",
     H |-> "h", I |-> "i", J |-> "j", K |-> "k", L |-> "l", M |-> "m", N |-> "n",
     O |-> "o", P |-> "p", Q |-> "q", R |-> "r", S |-> "s", T |-> "t", U |-> "u",
     V |-> "v", W |-> "w", X |-> "x", Y |-> "y", Z |-> "z"]

LowerChar(c) == IF c \in DOMAIN UpperToLower THEN UpperToLower[c] ELSE c

\* str.lower()
RECURSIVE lower(_)
lower(s) ==
    IF Len(s) = 0 THEN ""
    ELSE LowerChar(SubSeq(s, 1, 1)) \o lower(SubSeq(s, 2, Len(s)))

\* " ".join(list)
RECURSIVE join(_)
join(list) ==
    IF Len(list) = 0 THEN ""
    ELSE IF Len(list) = 1 THEN list[1]
    ELSE list[1] \o " " \o join(Tail(list))

\* pattern in text
Contains(text, pattern) ==
    \E i \in 1..(Len(text) - Len(pattern) + 1) :
        SubSeq(text, i, i + Len(pattern) - 1) = pattern

\* math.gcd of two non-negative integers
RECURSIVE gcd(_, _)
gcd(a, b) == IF b = 0 THEN a ELSE gcd(b, a % b)

\* the sequences that list every element of S exactly once
RECURSIVE Perms(_)
Perms(S) ==
    IF S = {} THEN {<<>>}
    ELSE UNION {{<<x>> \o p : p \in Perms(S \ {x})} : x \in S}

\* the elements of sequence q that are in S, in q's order
RECURSIVE Filter(_, _)
Filter(q, S) ==
    IF Len(q) = 0 THEN <<>>
    ELSE IF Head(q) \in S THEN <<Head(q)>> \o Filter(Tail(q), S)
    ELSE Filter(Tail(q), S)

Range(q) == {q[i] : i \in 1..Len(q)}

-----------------------------------------------------------------------------
(* modules/emotion_fusion.py *)

\* "Ensure required emotions exist"
core_emotions == <<"sadness", "anger", "fear", "anxiety", "joy", "neutral">>

\* distress_weights, in tenths
distress_weights ==
    [sadness |-> 15, fear |-> 15, anxiety |-> 14, anger |-> 12, frustration |-> 11]

\* the shares of distress, neutral factor and voice intensity, in tenths
distress_share == 4
neutral_share == 3
voice_share == 3

\* the emotion combination of _check_crisis_indicators
sadness_limit == 6000
fear_limit == 4000

\* the sum of f[x] over the x in S
RECURSIVE SumOver(_, _)
SumOver(S, f) ==
    IF S = {} THEN 0
    ELSE LET x == CHOOSE y \in S : TRUE
         IN  f[x] + SumOver(S \ {x}, f)

\* sum(distress_weights.values()), in tenths
distress_total == SumOver(DOMAIN distress_weights, distress_weights)

\* the integer that stands for an unrounded intensity of 1.0
IntensityOne == 10 * distress_total * ScoreScale

\* the integer that stands for an unrounded intensity of t / ScoreScale
AsIntensity(t) == t * 10 * distress_total

calculate_intensity_unclipped(emotions, voice_intensity) ==
    LET term == [e \in DOMAIN distress_weights |-> Get(emotions, e) * distress_weights[e]]
        distress_score == SumOver(DOMAIN distress_weights, term)
        neutral_factor == ScoreScale - Get(emotions, "neutral")
    IN  distress_share * distress_score
        + neutral_share * distress_total * neutral_factor
        + voice_share * distress_total * voice_intensity

calculate_intensity(emotions, voice_intensity) ==
    LET intensity == calculate_intensity_unclipped(emotions, voice_intensity)
    IN  IF IntensityOne < intensity THEN IntensityOne ELSE intensity

get_intensity_level_swapped(intensity) ==
    IF intensity >= AsIntensity(thresholds.crisis_threshold) THEN "crisis"
    ELSE IF intensity >= AsIntensity(thresholds.moderate_threshold) THEN "high"
    ELSE IF intensity >= AsIntensity(thresholds.high_threshold) THEN "moderate"
    ELSE IF intensity >= AsIntensity(thresholds.mild_threshold) THEN "mild"
    ELSE "low"

get_intensity_level(intensity) ==
    IF intensity >= AsIntensity(thresholds.crisis_threshold) THEN "crisis"
    ELSE IF intensity >= AsIntensity(thresholds.high_threshold) THEN "high"
    ELSE IF intensity >= AsIntensity(thresholds.moderate_threshold) THEN "moderate"
    ELSE IF intensity >= AsIntensity(thresholds.mild_threshold) THEN "mild"
    ELSE "low"

check_crisis_indicators_no_join(intensity, key_phrases, emotions) ==
    IF intensity >= AsIntensity(thresholds.crisis_threshold) THEN TRUE
    ELSE IF \E i \in 1..Len(key_phrases), k \in 1..Len(crisis_keywords) :
                Contains(lower(key_phrases[i]), crisis_keywords[k]) THEN TRUE
    ELSE IF /\ Get(emotions, "sadness") > sadness_limit
            /\ Get(emotions, "fear") > fear_limit
            /\ intensity >= AsIntensity(thresholds.high_threshold) THEN TRUE
    ELSE FALSE

check_crisis_indicators(intensity, key_phrases, emotions) ==
    LET phrases_text == lower(join(key_phrases))
    IN  IF intensity >= AsIntensity(thresholds.crisis_threshold) THEN TRUE
        ELSE IF \E k \in 1..Len(crisis_keywords) :
                    Contains(phrases_text, crisis_keywords[k]) THEN TRUE
        ELSE IF /\ Get(emotions, "sadness") > sadness_limit
                /\ Get(emotions, "fear") > fear_limit
                /\ intensity > AsIntensity(thresholds.high_threshold) THEN TRUE
        ELSE FALSE

\* set(list(voice.keys()) + list(text.keys()))
all_categories(voice, text) == DOMAIN voice.all_emotions \union DOMAIN text.all_emotions

weighted_sum_swapped(vw, tw, voice_score, text_score) ==
    tw * voice_score + vw * text_score

weighted_sum_after_call(vw, tw, voice_score, text_score) ==
    IF pc = "idle" THEN vw * voice_score + tw * text_score
    ELSE vw * voice_score + tw * text_score + weight_unit

\* voice_weight * voice_score + text_weight * text_score, in units of
\* 1 / (weight_unit * ScoreScale)
weighted_sum(vw, tw, voice_score, text_score) ==
    vw * voice_score + tw * text_score

\* the dicts the fusion loop can build over the labels S: each score is
\* round(fused_score, 4)
RECURSIVE FusedScores(_, _, _, _, _)
FusedScores(vw, tw, voice, text, S) ==
    IF S = {} THEN {<<>>}
    ELSE LET emotion == CHOOSE e \in S : TRUE
             fused_score == weighted_sum(vw, tw, Get(voice.all_emotions, emotion),
                                         Get(text.all_emotions, emotion))
         IN  {(emotion :> r) @@ m :
                 r \in RoundChoices(fused_score, weight_unit),
                 m \in FusedScores(vw, tw, voice, text, S \ {emotion})}

\* the keys of fused_emotions in insertion order: the labels of all_categories in
\* the set's iteration order, then the missing core labels in list order
fused_keys(order, voice, text) ==
    Filter(order, all_categories(voice, text))
        \o Filter(core_emotions, Range(core_emotions) \ all_categories(voice, text))

backfill_with_share(scores) ==
    scores @@ [e \in Range(core_emotions) \ DOMAIN scores |-> ScoreScale \div Len(core_emotions)]

\* "Ensure required emotions exist"
backfill(scores) ==
    scores @@ [e \in Range(core_emotions) \ DOMAIN scores |-> 0]

\* max(fused_emotions, key=fused_emotions.get): the first key of maximal score
primary_of(keys, fused_emotions) ==
    LET best == CHOOSE i \in 1..Len(keys) :
                    /\ \A j \in 1..Len(keys) : fused_emotions[keys[j]] <= fused_emotions[keys[i]]
                    /\ \A j \in 1..(i - 1) : fused_emotions[keys[j]] < fused_emotions[keys[i]]
    IN  keys[best]

\* the FusedEmotionResults fuse_emotions can return
FuseResults(order, vw, tw, voice, text) ==
    LET keys == fused_keys(order, voice, text)
    IN  UNION { LET fused_emotions == backfill(scores)
                    primary_emotion == primary_of(keys, fused_emotions)
                    intensity == calculate_intensity(fused_emotions, voice.intensity)
                IN  { [primary_emotion |-> primary_emotion,
                       confidence |-> c,
                       all_emotions |-> fused_emotions,
                       intensity |-> i,
                       intensity_level |-> get_intensity_level(intensity),
                       key_phrases |-> text.key_phrases,
                       requires_crisis_response |->
                           check_crisis_indicators(intensity, text.key_phrases, fused_emotions)] :
                      c \in RoundChoices(fused_emotions[primary_emotion], ScoreScale \div MilliScale),
                      i \in RoundChoices(intensity, IntensityOne \div MilliScale) }
              : scores \in FusedScores(vw, tw, voice, text, all_categories(voice, text)) }

-----------------------------------------------------------------------------
(* modules/safety_checker.py *)

self_harm_patterns ==
    << "hurt myself", "harm myself", "cut myself",
       "end my life", "end it all", "kill myself",
       "don't want to live", "better off dead",
       "no reason to live", "give up on life" >>

hopelessness_patterns ==
    << "no hope", "hopeless", "nothing matters",
       "no point", "worthless", "burden",
       "nobody cares", "alone forever", "give up" >>

extreme_distress_patterns ==
    << "can't take it", "breaking down", "falling apart",
       "losing my mind", "can't cope", "drowning",
       "crushing me", "suffocating" >>

\* the literal 0.7 that gates hopelessness, in units of 1e-3
hopelessness_intensity == 700

check_patterns_reversed(text, patterns) ==
    \E i \in 1..Len(patterns) : Contains(patterns[i], text)

\* any(pattern in text for pattern in patterns)
check_patterns(text, patterns) ==
    \E i \in 1..Len(patterns) : Contains(text, patterns[i])

\* (the em dash of the source is written "--")
get_crisis_message(crisis_type) ==
    LET messages ==
            [self_harm |->
                "I hear that you're in a lot of pain right now. "
                    \o "You don't have to go through this alone. "
                    \o "Please consider reaching out to someone who can help -- "
                    \o "a trusted friend, family member, or a crisis helpline.",
             hopelessness |->
                "I can hear how heavy everything feels right now. "
                    \o "These feelings are real, and they matter. "
                    \o "But please know that support is available, "
                    \o "and talking to someone can help.",
             crisis_keywords |->
                "What you're going through sounds really difficult. "
                    \o "I want you to know that you matter, and help is available. "
                    \o "Please consider talking to someone you trust or a counselor.",
             extreme_distress |->
                "I can hear how overwhelmed you're feeling. "
                    \o "That's an incredibly hard place to be. "
                    \o "You don't have to face this alone -- "
                    \o "reaching out to someone can really help."]
    IN  IF crisis_type \in DOMAIN messages THEN messages[crisis_type]
        ELSE messages["extreme_distress"]

get_relevant_resources_none(crisis_type) == <<>>

get_relevant_resources(crisis_type) ==
    [i \in 1..Len(crisis_resources) |->
        crisis_resources[i][1] \o ": " \o crisis_resources[i][2]]

crisis_type_of_softest_first(self_harm, hopelessness, crisis_keyword, emotion_result) ==
    IF hopelessness /\ emotion_result.intensity >= hopelessness_intensity
        THEN "hopelessness"
    ELSE IF self_harm THEN "self_harm"
    ELSE IF crisis_keyword THEN "crisis_keywords"
    ELSE IF emotion_result.requires_crisis_response THEN "extreme_distress"
    ELSE "None"

crisis_type_of_ungated(self_harm, hopelessness, crisis_keyword, emotion_result) ==
    IF self_harm THEN "self_harm"
    ELSE IF hopelessness THEN "hopelessness"
    ELSE IF crisis_keyword THEN "crisis_keywords"
    ELSE IF emotion_result.requires_crisis_response THEN "extreme_distress"
    ELSE "None"

\* "Determine crisis type": the if/elif chain; "None" stands for None
crisis_type_of(self_harm, hopelessness, crisis_keyword, emotion_result) ==
    IF self_harm THEN "self_harm"
    ELSE IF hopelessness /\ emotion_result.intensity >= hopelessness_intensity
        THEN "hopelessness"
    ELSE IF crisis_keyword THEN "crisis_keywords"
    ELSE IF emotion_result.requires_crisis_response THEN "extreme_distress"
    ELSE "None"

high_distress_of_level_only(emotion_result, extreme_distress) ==
    emotion_result.intensity_level \in {"high", "crisis"}

\* "Check high distress"
high_distress_of(emotion_result, extreme_distress) ==
    emotion_result.intensity_level \in {"high", "crisis"} \/ extreme_distress

check_safety(text, emotion_result) ==
    LET text_lower == lower(text)
        self_harm_detected == check_patterns(text_lower, self_harm_patterns)
        hopelessness_detected == check_patterns(text_lower, hopelessness_patterns)
        extreme_distress == check_patterns(text_lower, extreme_distress_patterns)
        crisis_keyword == check_patterns(text_lower, crisis_keywords)
        crisis_type == crisis_type_of(self_harm_detected, hopelessness_detected,
                                      crisis_keyword, emotion_result)
        is_crisis == crisis_type # "None"
        is_high_distress == high_distress_of(emotion_result, extreme_distress)
    IN  [is_crisis |-> is_crisis,
         is_high_distress |-> is_high_distress,
         crisis_type |-> crisis_type,
         recommended_action |->
            IF is_crisis THEN "crisis_response"
            ELSE IF is_high_distress THEN "comfort_first"
            ELSE "normal",
         crisis_resources |-> IF is_crisis THEN get_relevant_resources(crisis_type) ELSE <<>>,
         should_skip_suggestion |-> is_crisis \/ is_high_distress,
         priority_message |-> IF is_crisis THEN get_crisis_message(crisis_type) ELSE "None"]

-----------------------------------------------------------------------------
(* modules/wellness_engine.py *)

\* config.emotion.emotion_modules
emotion_modules ==
    [sadness |-> <<"guided_meditation", "journaling", "self_compassion", "breathing">>,
     anger |-> <<"breathing", "grounding", "yoga", "body_scan">>,
     anxiety |-> <<"mindfulness", "body_scan", "reassurance", "grounding">>,
     fear |-> <<"safety_grounding", "calming_exercises", "reassurance", "breathing">>,
     frustration |-> <<"breathing", "grounding", "reflection", "yoga">>,
     confusion |-> <<"reflection", "mindfulness", "journaling">>,
     joy |-> <<"gratitude", "mindfulness", "reflection">>,
     neutral |-> <<"general_wellness", "reflection", "mindfulness">>]

\* self.activities: each activity by its key, with its title, its description
\* and the first of its instructions.  No two activities are equal, so an
\* activity is identified by its key.
activities ==
    [
     breathing |->
        [title |-> "Gentle Breathing",
         description |-> "A simple breathing exercise to help you feel more grounded.",
         first_instruction |-> "Find a comfortable position"],
     box_breathing |->
        [title |-> "Box Breathing",
         description |-> "A calming technique used by Navy SEALs to reduce stress instantly.",
         first_instruction |-> "Breathe in for 4 seconds"],
     grounding |->
        [title |-> "5-4-3-2-1 Grounding",
         description |-> "A grounding technique to bring you back to the present moment.",
         first_instruction |-> "Notice 5 things you can see around you"],
     yoga |->
        [title |-> "Gentle Stretching",
         description |-> "Simple stretches to release tension from your body.",
         first_instruction |-> "Stand or sit comfortably"],
     guided_meditation |->
        [title |-> "Brief Meditation",
         description |-> "A short moment of peaceful stillness.",
         first_instruction |-> "Find a quiet, comfortable spot"],
     journaling |->
        [title |-> "Quick Journal Prompt",
         description |-> "Writing can help process feelings.",
         first_instruction |-> "Find a piece of paper or open a note"],
     self_compassion |->
        [title |-> "Self-Compassion Moment",
         description |-> "A gentle reminder to be kind to yourself.",
         first_instruction |-> "Place your hand on your heart"],
     mindfulness |->
        [title |-> "Mindful Moment",
         description |-> "A brief pause to be present.",
         first_instruction |-> "Pause whatever you're doing"],
     body_scan |->
        [title |-> "Quick Body Check",
         description |-> "Notice and release tension in your body.",
         first_instruction |-> "Start by noticing your feet"],
     reassurance |->
        [title |-> "Grounding Affirmation",
         description |-> "Words of comfort for anxious moments.",
         first_instruction |-> "Find a comfortable position"],
     safety_grounding |->
        [title |-> "Safety Check",
         description |-> "Remind yourself you are safe right now.",
         first_instruction |-> "Look around and notice where you are"],
     calming_exercises |->
        [title |-> "Quick Calm",
         description |-> "Simple techniques to reduce stress quickly.",
         first_instruction |-> "Splash cold water on your face"],
     reflection |->
        [title |-> "Gentle Reflection",
         description |-> "Take a moment to check in with yourself.",
         first_instruction |-> "Ask yourself: 'How am I really feeling?'"],
     gratitude |->
        [title |-> "Gratitude Moment",
         description |-> "Notice small things to appreciate.",
         first_instruction |-> "Think of one thing you're grateful for today"],
     rest |->
        [title |-> "Permission to Rest",
         description |-> "Sometimes rest is the most helpful thing.",
         first_instruction |-> "Find a comfortable place to sit or lie down"],
     general_wellness |->
        [title |-> "Wellness Check-In",
         description |-> "A simple check-in with yourself.",
         first_instruction |-> "Pause and take a breath"],
     positive_affirmation |->
        [title |-> "Positive Affirmations",
         description |-> "Gentle words to lift your spirit.",
         first_instruction |-> "Place your hand on your heart"],
     nature_visualization |->
        [title |-> "Nature Visualization",
         description |-> "Mentally transport yourself to a peaceful natural setting.",
         first_instruction |-> "Close your eyes and imagine a peaceful forest"],
     cold_water_reset |->
        [title |-> "Cold Water Reset",
         description |-> "Use cold water to quickly calm your nervous system.",
         first_instruction |-> "Go to a sink with cold water"],
     movement_break |->
        [title |-> "Quick Movement Break",
         description |-> "Gentle movement to release stuck energy.",
         first_instruction |-> "Stand up and shake out your hands"],
     emotional_release |->
        [title |-> "Emotional Release Writing",
         description |-> "Write freely to release pent-up emotions.",
         first_instruction |-> "Grab paper or open a notes app"],
     color_breathing |->
        [title |-> "Color Breathing",
         description |-> "Combine visualization with breathing for calm.",
         first_instruction |-> "Breathe in and imagine a calming blue light"] ]

sad_activities ==
    <<"guided_meditation", "self_compassion", "positive_affirmation",
      "nature_visualization", "journaling", "emotional_release", "color_breathing">>

angry_activities ==
    <<"breathing", "box_breathing", "cold_water_reset", "grounding", "movement_break",
      "yoga", "body_scan">>

happy_activities ==
    <<"gratitude", "mindfulness", "reflection", "nature_visualization", "journaling", "yoga">>

\* self.emotion_activity_map
emotion_activity_map ==
    [sad |-> sad_activities,
     sadness |-> sad_activities,
     anger |-> angry_activities,
     angry |-> angry_activities,
     happy |-> happy_activities,
     joy |-> happy_activities,
     neutral |-> <<"general_wellness", "reflection", "mindfulness", "gratitude",
                   "breathing", "nature_visualization">>,
     fear |-> <<"safety_grounding", "reassurance", "breathing", "grounding",
                "calming_exercises", "body_scan">>,
     anxiety |-> <<"box_breathing", "grounding", "reassurance", "safety_grounding",
                   "mindfulness", "body_scan">>]

\* priority_modules of get_suggestion
priority_modules == <<"breathing", "grounding", "safety_grounding", "reassurance">>

\* priority_activities of get_all_suggestions
priority_activities ==
    <<"breathing", "box_breathing", "grounding", "safety_grounding", "reassurance",
      "cold_water_reset">>

general_fallbacks == <<"breathing", "mindfulness", "grounding", "gratitude">>

\* the first element of list that satisfies in[_], or default
RECURSIVE FirstIn(_, _, _)
FirstIn(list, in, default) ==
    IF list = <<>> THEN default
    ELSE IF Head(list) \in in THEN Head(list)
    ELSE FirstIn(Tail(list), in, default)

get_suggestion_first_candidate(emotion_result) ==
    LET available_modules ==
            IF emotion_result.primary_emotion \in DOMAIN emotion_modules
            THEN emotion_modules[emotion_result.primary_emotion]
            ELSE emotion_modules["neutral"]
    IN  FirstIn(available_modules, DOMAIN activities, "breathing")

get_suggestion(emotion_result) ==
    LET available_modules ==
            IF emotion_result.primary_emotion \in DOMAIN emotion_modules
            THEN emotion_modules[emotion_result.primary_emotion]
            ELSE emotion_modules["neutral"]
        module == FirstIn(priority_modules, Range(available_modules), "None")
    IN  IF emotion_result.intensity_level \in {"high", "crisis"} /\ module # "None"
        THEN IF module \in DOMAIN activities THEN module ELSE "breathing"
        ELSE FirstIn(available_modules, DOMAIN activities, "breathing")

\* "for activity in priority_activities": append while fewer than count
RECURSIVE PriorityLoop(_, _, _)
PriorityLoop(list, listed, n) ==
    IF list = <<>> THEN listed
    ELSE IF Head(list) \in DOMAIN activities /\ Len(listed) < n
         THEN PriorityLoop(Tail(list), Append(listed, Head(list)), n)
         ELSE PriorityLoop(Tail(list), listed, n)

priority_block_at_any_level(intensity, n) == PriorityLoop(priority_activities, <<>>, n)

\* "For high intensity, prioritize calming activities first"
priority_block(intensity, n) ==
    IF intensity \in {"high", "crisis"} THEN PriorityLoop(priority_activities, <<>>, n)
    ELSE <<>>

\* "for activity in available_activities": append what is not yet listed, and
\* break once count is reached
RECURSIVE EmotionLoop(_, _, _)
EmotionLoop(list, listed, n) ==
    IF list = <<>> THEN listed
    ELSE IF Head(list) \in DOMAIN activities
         THEN LET appended == IF Head(list) \notin Range(listed)
                              THEN Append(listed, Head(list)) ELSE listed
              IN  IF Len(appended) >= n THEN appended
                  ELSE EmotionLoop(Tail(list), appended, n)
         ELSE EmotionLoop(Tail(list), listed, n)

\* "for activity in general_fallbacks"
RECURSIVE FallbackLoop(_, _, _)
FallbackLoop(list, listed, n) ==
    IF list = <<>> \/ Len(listed) >= n THEN listed
    ELSE IF Head(list) \in DOMAIN activities /\ Head(list) \notin Range(listed)
         THEN FallbackLoop(Tail(list), Append(listed, Head(list)), n)
         ELSE FallbackLoop(Tail(list), listed, n)

slice_all(listed, n) == listed

\* listed[:n]
slice(listed, n) ==
    IF n >= 0 THEN SubSeq(listed, 1, IF n < Len(listed) THEN n ELSE Len(listed))
    ELSE SubSeq(listed, 1, Len(listed) + n)

get_all_suggestions(emotion_result, n) ==
    LET primary_emotion == lower(emotion_result.primary_emotion)
        available_activities ==
            IF primary_emotion \in DOMAIN emotion_activity_map
            THEN emotion_activity_map[primary_emotion]
            ELSE emotion_activity_map["neutral"]
        calming == priority_block(emotion_result.intensity_level, n)
        specific == EmotionLoop(available_activities, calming, n)
    IN  slice(FallbackLoop(general_fallbacks, specific, n), n)

intro_of_swapped(intensity) ==
    IF intensity \in {"high", "crisis"}
        THEN "If you'd like, there's something gentle that might help"
    ELSE IF intensity = "moderate" THEN "You might find it helpful to try"
    ELSE "If it feels right, you might try"

\* "Soft framing based on intensity"
intro_of(intensity) ==
    IF intensity \in {"high", "crisis"}
        THEN "If you'd like, there's something gentle that might help"
    ELSE IF intensity = "moderate" THEN "If it feels right, you might try"
    ELSE "You might find it helpful to try"

get_suggestion_text(module, emotion_result) ==
    LET activity == activities[module]
    IN  intro_of(emotion_result.intensity_level) \o ": " \o lower(activity.title) \o ". "
            \o activity.description \o " "
            \o "You could start by " \o lower(activity.first_instruction) \o "."

-----------------------------------------------------------------------------
(* modules/safety_checker.py: the resource text *)

get_resource_text_all(resources) ==
    IF resources = <<>> THEN ""
    ELSE LET RECURSIVE lines(_)
             lines(i) == IF i > Len(resources) THEN ""
                         ELSE "* " \o resources[i] \o "\n" \o lines(i + 1)
         IN  "\n\nIf you need support right now:\n" \o lines(1)

\* one line per resource of resources[:3]; the bullet (U+2022) is written "*"
get_resource_text(resources) ==
    IF resources = <<>> THEN ""
    ELSE LET shown == SubSeq(resources, 1, IF Len(resources) < 3 THEN Len(resources) ELSE 3)
             RECURSIVE lines(_)
             lines(i) == IF i > Len(shown) THEN ""
                         ELSE "* " \o shown[i] \o "\n" \o lines(i + 1)
         IN  "\n\nIf you need support right now:\n" \o lines(1)

-----------------------------------------------------------------------------
(* modules/response_generator.py *)

\* str.strip() of a reply made of letters, spaces and punctuation
strip(text) ==
    LET RECURSIVE lstrip(_)
        lstrip(t) ==
            IF Len(t) > 0 /\ SubSeq(t, 1, 1) = " " THEN lstrip(SubSeq(t, 2, Len(t)))
            ELSE t
        RECURSIVE rstrip(_)
        rstrip(t) ==
            IF Len(t) > 0 /\ SubSeq(t, Len(t), Len(t)) = " "
                THEN rstrip(SubSeq(t, 1, Len(t) - 1))
            ELSE t
    IN  lstrip(rstrip(text))

\* the keys of the addons of _build_emotion_addon
emotion_addons ==
    {"sadness", "sad", "anger", "angry", "fear", "anxiety", "frustration", "neutral",
     "confusion", "happy", "joy"}

\* addons.get(emotion.lower(), addons["neutral"]), named by its key
build_emotion_addon(emotion) ==
    IF lower(emotion) \in emotion_addons THEN lower(emotion) ELSE "neutral"

\* the system prompt generate_response assembles, as the list of its parts
full_system_of(context) ==
    << "system_prompt", "emotion_addon:" \o build_emotion_addon(context.primary_emotion),
       IF context.requires_crisis THEN "crisis_addon" ELSE "wellness_addon" >>

crisis_fallback ==
    "I hear you, and I'm really glad you're sharing this with me. "
        \o "What you're feeling sounds really heavy. "
        \o "Please know you don't have to carry this alone -- "
        \o "reaching out to someone you trust, like a friend or counselor, can help."

fallbacks ==
    LET sadness ==
            "I can hear how hard things are feeling right now. "
                \o "It's okay to feel this sadness. "
                \o "If it feels right, you might try taking a few slow, deep breaths."
        anger ==
            "I understand you're feeling frustrated. "
                \o "Those feelings are valid. "
                \o "Would it help to step away for a moment and take some slow breaths?"
        joy ==
            "It's wonderful to hear that positive energy in your voice! "
                \o "These moments of happiness are precious. "
                \o "Take a moment to really savor this feeling."
    IN  [sadness |-> sadness,
         sad |-> sadness,
         anger |-> anger,
         angry |-> anger,
         fear |->
            "That sounds scary, and it makes sense you're feeling afraid. "
                \o "You're safe in this moment. "
                \o "Try feeling your feet on the ground -- you're here, right now.",
         anxiety |->
            "I hear that things feel overwhelming right now. "
                \o "That anxious feeling is hard to carry. "
                \o "If you can, try breathing out slowly -- longer than you breathe in.",
         frustration |->
            "It sounds like you're feeling stuck and frustrated. "
                \o "That's a really difficult place to be. "
                \o "Sometimes stepping back for a moment can help things feel clearer.",
         happy |-> joy,
         joy |-> joy,
         neutral |->
            "Thank you for sharing what's on your mind. "
                \o "I'm here to listen whenever you need. "
                \o "How are you feeling in this moment?"]

fallback_response(context) ==
    IF context.requires_crisis \/ context.intensity_level = "crisis" THEN crisis_fallback
    ELSE IF context.primary_emotion \in DOMAIN fallbacks THEN fallbacks[context.primary_emotion]
    ELSE fallbacks["neutral"]

\* what a backend does with a request: it raises, or it answers with a text
Raises == [kind |-> "raise"]
Answers(text) == [kind |-> "text", text |-> text]

\* OpenAIClient.generate and OllamaClient.generate: the stripped answer, "" on
\* any exception
client_generate(backend) == IF backend.kind = "raise" THEN "" ELSE strip(backend.text)

\* the object __init__ builds when neither OpenAI nor Ollama is available and
\* no Anthropic key is configured
no_backend_generator ==
    [llm_provider |-> "anthropic", anthropic_client |-> "None", client |-> "unset"]

\* __init__: the first available of OpenAI and Ollama is the provider; otherwise
\* _init_anthropic stores the Anthropic client in self.client, and
\* self.anthropic_client keeps the None it was given first
generator_of(openai_available, ollama_available, anthropic_api_key) ==
    IF openai_available
        THEN [llm_provider |-> "openai", anthropic_client |-> "None", client |-> "unset"]
    ELSE IF ollama_available
        THEN [llm_provider |-> "ollama", anthropic_client |-> "None", client |-> "unset"]
    ELSE [llm_provider |-> "anthropic", anthropic_client |-> "None",
          client |-> IF anthropic_api_key THEN "Anthropic" ELSE "unset"]

generate_response_unchecked(gen, backend, anthropic_backend, context) ==
    IF gen.llm_provider \in {"openai", "ollama"} THEN client_generate(backend)
    ELSE fallback_response(context)

\* generate_response: the provider's text if it is not empty; then Anthropic if
\* self.anthropic_client is set, whose stripped text is returned as it is;
\* then the hardcoded responses
generate_response(gen, backend, anthropic_backend, context) ==
    IF gen.llm_provider \in {"openai", "ollama"} /\ client_generate(backend) # ""
        THEN client_generate(backend)
    ELSE IF gen.anthropic_client # "None" /\ anthropic_backend.kind # "raise"
        THEN strip(anthropic_backend.text)
    ELSE fallback_response(context)

create_context(text, emotion_result, suggested) ==
    [transcribed_text |-> text,
     primary_emotion |-> emotion_result.primary_emotion,
     confidence |-> emotion_result.confidence,
     intensity |-> emotion_result.intensity,
     intensity_level |-> emotion_result.intensity_level,
     key_phrases |-> emotion_result.key_phrases,
     requires_crisis |-> emotion_result.requires_crisis_response,
     wellness_suggestion |-> suggested]

-----------------------------------------------------------------------------
(* modules/prosody_emotion.py: the cascading detector *)

\* the list "detectors" of detect_emotion_from_file
detector_names == <<"Hume AI", "emotion2vec", "HuBERT", "Wav2Vec2", "Audio Features">>

\* no API key and no model loaded: only AudioFeaturesEmotionDetector is available
baseline_only == [i \in 1..Len(detector_names) |-> i = Len(detector_names)]

\* the result the cascade builds when every detector was skipped or refused:
\* confidence 0.5 (in 1e-3), scores in 1e-4, intensity 0.3 (in 1e-3)
final_fallback ==
    [primary_emotion |-> "neutral", confidence |-> 500,
     all_emotions |-> [neutral |-> 5000, angry |-> 1000, happy |-> 2000, sad |-> 2000],
     intensity |-> 300]

\* AudioFeaturesEmotionDetector._default_result()
default_result ==
    [primary_emotion |-> "neutral", confidence |-> 500,
     all_emotions |-> [angry |-> 1000, happy |-> 1000, sad |-> 1000, neutral |-> 7000],
     intensity |-> 300]

min_confidence == 100
neutral_confidence == 990

accepted_any_result(outcome) == outcome.kind = "result"

\* "if result and result.confidence > 0.1", unless the result is neutral with
\* confidence >= 0.99
accepted(outcome) ==
    /\ outcome.kind = "result"
    /\ outcome.result.confidence > min_confidence
    /\ ~(outcome.result.primary_emotion = "neutral"
            /\ outcome.result.confidence >= neutral_confidence)

-----------------------------------------------------------------------------
(* The estimates handed to the fusion *)

Labels == {"sadness", "fear", "anxiety", "neutral"}

Absent == 0 - 1

\* the dicts that give each label l one of choices[l], leaving it out for Absent
Dicts(choices) ==
    { [l \in {k \in DOMAIN f : f[k] # Absent} |-> f[l]] :
        f \in {g \in [DOMAIN choices -> UNION {choices[l] : l \in DOMAIN choices}] :
                 \A l \in DOMAIN choices : g[l] \in choices[l]} }

VoiceScores ==
    [sadness |-> {Absent, 3333, 10000},
     fear    |-> {Absent, 10000},
     anxiety |-> {3330, 10000},
     neutral |-> {Absent, 9000}]

\* text_emotion.py adds 0.2 to "neutral" for every negated keyword and does not
\* clip the sum
negated_step == 2000

TextScores ==
    [sadness |-> {Absent, 10000},
     fear    |-> {Absent, 10000},
     anxiety |-> {Absent, 10000},
     neutral |-> {Absent, negated_step * MaxNegated}]

KeyPhrases == { <<>>, <<"tired", "alone">>, <<"No", "Point">> }

\* a voice that is hardly neutral: intensity = round(1 - neutral, 3)
active_voice == [all_emotions |-> [neutral |-> 960], intensity |-> ScoreScale - 960]

\* TextEmotionAnalyzer._empty_result()
empty_result == [all_emotions |-> [neutral |-> 5000], key_phrases |-> <<>>]

VoiceEstimates ==
    { [all_emotions |-> d, intensity |-> i] : d \in Dicts(VoiceScores), i \in {1000, 10000} }
        \union {active_voice}

TextEstimates ==
    { [all_emotions |-> d, key_phrases |-> k] : d \in Dicts(TextScores), k \in KeyPhrases }
        \union {empty_result}

-----------------------------------------------------------------------------
(* State machine *)

\* None, which has no attribute
None == [none |-> TRUE]

IsNone(estimate) == "all_emotions" \notin DOMAIN estimate

\* the thresholds of EmotionConfig
default_thresholds ==
    [mild_threshold |-> mild_threshold, moderate_threshold |-> moderate_threshold,
     high_threshold |-> high_threshold, crisis_threshold |-> crisis_threshold]

NoVoice == [all_emotions |-> <<>>, intensity |-> 0]
NoText == [all_emotions |-> <<>>, key_phrases |-> <<>>]
NoFused ==
    [primary_emotion |-> "", confidence |-> 0, all_emotions |-> <<>>, intensity |-> 0,
     intensity_level |-> "", key_phrases |-> <<>>, requires_crisis_response |-> FALSE]
\* no detector has been awaited yet
NoOutcome == [kind |-> "not awaited"]

NoSafety ==
    [is_crisis |-> FALSE, is_high_distress |-> FALSE, crisis_type |-> "None",
     recommended_action |-> "", crisis_resources |-> <<>>,
     should_skip_suggestion |-> FALSE, priority_message |-> "None"]

\* process start: EmotionFusion.__init__, and the string hash seed that fixes
\* the iteration order of sets of labels
Init ==
    /\ pc = "idle"
    /\ hash_order \in Perms(Labels)
    /\ voice_weight = default_voice_weight
    /\ text_weight = default_text_weight
    /\ voice_emotion = NoVoice
    /\ text_emotion = NoText
    /\ fused = NoFused
    /\ transcribed_text = ""
    /\ safety = NoSafety
    /\ probe = <<0, 0>>
    /\ probe_level = <<"", "">>
    /\ weight_unit = WeightScale
    /\ thresholds = default_thresholds
    /\ raised = "None"
    /\ fused_again = NoFused
    /\ count = 0
    /\ suggestion = "None"
    /\ suggestions = <<>>
    /\ suggestion_text = ""
    /\ trace = <<>>
    /\ response_context = None
    /\ full_system = <<>>
    /\ composed = ""
    /\ reply = ""
    /\ spoken = ""
    /\ response_audio_path = "None"
    /\ result = None
    /\ generator = no_backend_generator
    /\ backend_reply = NoOutcome
    /\ detectors = baseline_only
    /\ cascade_index = 0
    /\ invoked = <<>>
    /\ last_outcome = NoOutcome
    /\ detected = None

\* None.all_emotions raises AttributeError before anything is computed
fuse_emotions(voices, texts) ==
    /\ pc = "idle"
    /\ \E voice \in voices, text \in texts :
          /\ voice_emotion' = voice
          /\ text_emotion' = text
          /\ IF IsNone(voice) \/ IsNone(text)
                THEN /\ raised' = "AttributeError"
                     /\ fused' = fused
                     /\ pc' = "raised"
                ELSE /\ raised' = "None"
                     /\ fused' \in FuseResults(hash_order, voice_weight, text_weight,
                                                voice, text)
                     /\ pc' = "fused"
    /\ UNCHANGED <<collaborators,
                   hash_order, voice_weight, text_weight, transcribed_text, safety,
                   probe, probe_level, engine_fields, fused_again, wellness_vars>>

FuseAny == fuse_emotions(VoiceEstimates, TextEstimates)

\* the caller drops the result; the engine keeps no trace of the call
FusionReturn ==
    /\ pc = "fused"
    /\ pc' = "idle"
    /\ voice_emotion' = NoVoice
    /\ text_emotion' = NoText
    /\ fused' = NoFused
    /\ raised' = "None"
    /\ UNCHANGED <<collaborators,
                   hash_order, voice_weight, text_weight, transcribed_text, safety,
                   probe, probe_level, engine_fields, fused_again, wellness_vars>>

NextFusion == FuseAny \/ FusionReturn

SpecFusion == Init /\ [][NextFusion]_vars

\* two calls of _get_intensity_level (it reads the thresholds only)
Probes == {(k * IntensityOne) \div ProbeSteps : k \in (-1)..ProbeSteps}

get_intensity_level_twice ==
    /\ pc = "idle"
    /\ \E a \in Probes, b \in Probes :
          /\ probe' = <<a, b>>
          /\ probe_level' = <<get_intensity_level(a), get_intensity_level(b)>>
    /\ pc' = "probed"
    /\ UNCHANGED <<collaborators,
                   hash_order, voice_weight, text_weight, voice_emotion, text_emotion,
                   fused, transcribed_text, safety, engine_fields, raised, fused_again,
                   wellness_vars>>

ProbeReturn ==
    /\ pc = "probed"
    /\ pc' = "idle"
    /\ probe' = <<0, 0>>
    /\ probe_level' = <<"", "">>
    /\ UNCHANGED <<collaborators,
                   hash_order, voice_weight, text_weight, voice_emotion, text_emotion,
                   fused, transcribed_text, safety, engine_fields, raised, fused_again,
                   wellness_vars>>

NextLevel == get_intensity_level_twice \/ ProbeReturn

SpecLevel == Init /\ [][NextLevel]_vars

-----------------------------------------------------------------------------
(* app/pipeline.py: steps 4 and 5 of a run *)

PipelineVoices ==
    { [all_emotions |-> [sadness |-> 10000, fear |-> 10000, anxiety |-> 10000],
       intensity |-> 10000],
      [all_emotions |-> [sadness |-> 10000, anxiety |-> 10000], intensity |-> 10000],
      [all_emotions |-> [anxiety |-> 3330, neutral |-> 9000], intensity |-> 1000] }

PipelineTexts ==
    { [all_emotions |-> [sadness |-> 10000, fear |-> 10000, anxiety |-> 10000],
       key_phrases |-> <<>>],
      [all_emotions |-> [sadness |-> 10000, anxiety |-> 10000],
       key_phrases |-> <<"tired", "alone">>],
      [all_emotions |-> [neutral |-> negated_step * MaxNegated],
       key_phrases |-> <<"No", "Point">>] }

Sentences ==
    << "END MY LIFE",
       "hopeless",
       "a burden",
       "can't go on",
       "falling apart",
       "hello" >>

\* the lists of at most n sentences
RECURSIVE SentenceLists(_)
SentenceLists(n) ==
    IF n = 0 THEN {<<>>}
    ELSE SentenceLists(n - 1)
            \union {<<Sentences[i]>> \o q : i \in 1..Len(Sentences),
                                            q \in {r \in SentenceLists(n - 1) : Len(r) = n - 1}}

Transcripts == {join(q) : q \in SentenceLists(MaxSentences)}

FuseStep == fuse_emotions(PipelineVoices, PipelineTexts)

SafetyStep ==
    /\ pc = "fused"
    /\ \E text \in Transcripts :
          /\ transcribed_text' = text
          /\ safety' = check_safety(text, fused)
    /\ pc' = "checked"
    /\ UNCHANGED <<collaborators,
                   hash_order, voice_weight, text_weight, voice_emotion, text_emotion,
                   fused, probe, probe_level, engine_fields, raised, fused_again,
                   wellness_vars>>

\* the run ends; the next one starts from fresh objects
RunReturn ==
    /\ pc = "checked"
    /\ pc' = "idle"
    /\ voice_emotion' = NoVoice
    /\ text_emotion' = NoText
    /\ fused' = NoFused
    /\ transcribed_text' = ""
    /\ safety' = NoSafety
    /\ UNCHANGED <<collaborators,
                   hash_order, voice_weight, text_weight, probe, probe_level,
                   engine_fields, raised, fused_again, wellness_vars>>

Next == FuseStep \/ SafetyStep \/ RunReturn

Spec == Init /\ [][Next]_vars

-----------------------------------------------------------------------------
(* The wellness engine: one suggestion and its wording, or a list of them *)

\* the primary emotions a result can name: the configured labels, the labels
\* of the voice detectors, a capitalised label and a label of no table
WellnessEmotions == Range(supported_emotions) \union {"sad", "angry", "happy", "Fear", "surprise"}

IntensityLevels == {"low", "mild", "moderate", "high", "crisis"}

WellnessInputs ==
    { [NoFused EXCEPT !.primary_emotion = e, !.intensity_level = l] :
        e \in WellnessEmotions, l \in IntensityLevels }

GetSuggestion ==
    /\ pc = "idle"
    /\ \E emotion_result \in WellnessInputs :
          /\ fused' = emotion_result
          /\ suggestion' = get_suggestion(emotion_result)
    /\ pc' = "suggested"
    /\ UNCHANGED <<collaborators,
                   hash_order, voice_weight, text_weight, voice_emotion, text_emotion,
                   transcribed_text, safety, probe, probe_level, engine_fields, raised,
                   fused_again, count, suggestions, suggestion_text>>

GetSuggestionText ==
    /\ pc = "suggested"
    /\ suggestion_text' = get_suggestion_text(suggestion, fused)
    /\ pc' = "worded"
    /\ UNCHANGED <<collaborators,
                   hash_order, voice_weight, text_weight, voice_emotion, text_emotion,
                   fused, transcribed_text, safety, probe, probe_level, engine_fields,
                   raised, fused_again, count, suggestion, suggestions>>

GetAllSuggestions ==
    /\ pc = "idle"
    /\ \E emotion_result \in WellnessInputs, n \in 0..MaxCount :
          /\ fused' = emotion_result
          /\ count' = n
          /\ suggestions' = get_all_suggestions(emotion_result, n)
    /\ pc' = "listed"
    /\ UNCHANGED <<collaborators,
                   hash_order, voice_weight, text_weight, voice_emotion, text_emotion,
                   transcribed_text, safety, probe, probe_level, engine_fields, raised,
                   fused_again, suggestion, suggestion_text>>

\* the caller drops what it was given
WellnessReturn ==
    /\ pc \in {"suggested", "worded", "listed"}
    /\ pc' = "idle"
    /\ fused' = NoFused
    /\ count' = 0
    /\ suggestion' = "None"
    /\ suggestions' = <<>>
    /\ suggestion_text' = ""
    /\ UNCHANGED <<collaborators,
                   hash_order, voice_weight, text_weight, voice_emotion, text_emotion,
                   transcribed_text, safety, probe, probe_level, engine_fields, raised,
                   fused_again>>

NextWellness == GetSuggestion \/ GetSuggestionText \/ GetAllSuggestions \/ WellnessReturn

SpecWellness == Init /\ [][NextWellness]_vars

-----------------------------------------------------------------------------
(* The engine as an object: construction, adjust_weights, repeated calls *)

\* the threshold fields of the EmotionConfig objects an engine is built from:
\* the shipped one, one with two equal thresholds, one in descending order
EmotionConfigs ==
    { default_thresholds,
      [default_thresholds EXCEPT !.mild_threshold = moderate_threshold],
      [mild_threshold |-> 9000, moderate_threshold |-> high_threshold,
       high_threshold |-> moderate_threshold, crisis_threshold |-> 2000] }

\* EmotionFusion.__init__: the fields are copied from the config as they are
EmotionFusion_init ==
    /\ pc = "idle"
    /\ \E emotion \in EmotionConfigs : thresholds' = emotion
    /\ voice_weight' = default_voice_weight
    /\ text_weight' = default_text_weight
    /\ weight_unit' = WeightScale
    /\ UNCHANGED <<pc, collaborators,
                   hash_order, voice_emotion, text_emotion, fused, transcribed_text,
                   safety, probe, probe_level, raised, fused_again, wellness_vars>>

\* an engine is built and _get_intensity_level asked for levels
NextStartup == EmotionFusion_init \/ get_intensity_level_twice \/ ProbeReturn

SpecStartup == Init /\ [][NextStartup]_vars

\* the weights a caller supplies to adjust_weights, in units of 1e-2; Absent
\* stands for an argument left at None
SuppliedWeights == {Absent, 0, 50, 100}

\* adjust_weights.  The weights are kept as exact fractions: after the two
\* assignments they are voice / (WeightScale * weight_unit) and
\* text / (WeightScale * weight_unit); the two divisions by total turn them into
\* voice / total and text / total.  A total of 0 raises ZeroDivisionError at the
\* first division, after the assignments.
adjust_weights ==
    /\ pc = "idle"
    /\ \E v \in SuppliedWeights, t \in SuppliedWeights :
          LET voice == IF v # Absent THEN v * weight_unit ELSE voice_weight * WeightScale
              text == IF t # Absent THEN t * weight_unit ELSE text_weight * WeightScale
              total == voice + text
              unit == IF total = 0 THEN WeightScale * weight_unit ELSE total
              d == gcd(gcd(voice, text), unit)
          IN  /\ unit \div d <= MaxWeightUnit
              /\ voice_weight' = voice \div d
              /\ text_weight' = text \div d
              /\ weight_unit' = unit \div d
              /\ raised' = IF total = 0 THEN "ZeroDivisionError" ELSE "None"
    /\ pc' = "adjusted"
    /\ UNCHANGED <<collaborators,
                   hash_order, thresholds, voice_emotion, text_emotion, fused,
                   transcribed_text, safety, probe, probe_level, fused_again, wellness_vars>>

\* the estimates handed to the engine: None, one whose distribution is empty,
\* and ordinary ones
EngineVoices ==
    { None,
      [all_emotions |-> <<>>, intensity |-> 5000],
      [all_emotions |-> [sadness |-> 10000, anxiety |-> 10000], intensity |-> 10000],
      active_voice }

EngineTexts ==
    { None,
      [all_emotions |-> <<>>, key_phrases |-> <<>>],
      empty_result }

FuseEngine == fuse_emotions(EngineVoices, EngineTexts)

\* a float rounds the same way every time: where the value a field of the
\* result r is rounded from can round to what the field of the first result
\* holds, r holds the same
SameRounding(first, r) ==
    /\ \A e \in all_categories(voice_emotion, text_emotion) :
          first.all_emotions[e] \in
                RoundChoices(weighted_sum(voice_weight, text_weight,
                                          Get(voice_emotion.all_emotions, e),
                                          Get(text_emotion.all_emotions, e)), weight_unit)
             => r.all_emotions[e] = first.all_emotions[e]
    /\ first.confidence \in RoundChoices(r.all_emotions[r.primary_emotion],
                                          ScoreScale \div MilliScale)
          => r.confidence = first.confidence
    /\ first.intensity \in RoundChoices(calculate_intensity(r.all_emotions,
                                                             voice_emotion.intensity),
                                         IntensityOne \div MilliScale)
          => r.intensity = first.intensity

\* a second call of fuse_emotions on the estimates of the first
fuse_emotions_again ==
    /\ pc = "fused"
    /\ fused_again' \in
          {r \in FuseResults(hash_order, voice_weight, text_weight, voice_emotion, text_emotion) :
              SameRounding(fused, r)}
    /\ pc' = "fused_again"
    /\ UNCHANGED <<collaborators,
                   hash_order, voice_weight, text_weight, voice_emotion, text_emotion,
                   fused, transcribed_text, safety, probe, probe_level, engine_fields,
                   raised, wellness_vars>>

\* the call is over: its arguments and results are dropped, the engine stays
EngineReturn ==
    /\ pc \in {"adjusted", "fused", "fused_again", "raised"}
    /\ pc' = "idle"
    /\ voice_emotion' = NoVoice
    /\ text_emotion' = NoText
    /\ fused' = NoFused
    /\ fused_again' = NoFused
    /\ raised' = "None"
    /\ UNCHANGED <<collaborators,
                   hash_order, voice_weight, text_weight, transcribed_text, safety,
                   probe, probe_level, engine_fields, wellness_vars>>

NextEngine == adjust_weights \/ FuseEngine \/ fuse_emotions_again \/ EngineReturn

SpecEngine == Init /\ [][NextEngine]_vars

-----------------------------------------------------------------------------
(* The cascading voice detector: construction, and one call step by step *)

\* which detectors loaded; AudioFeaturesEmotionDetector sets is_available = True
Availabilities ==
    { a \in [1..Len(detector_names) -> BOOLEAN] : a[Len(detector_names)] }

CascadingEmotionDetector_init ==
    /\ pc = "idle"
    /\ detectors' \in Availabilities
    /\ UNCHANGED <<pc, hash_order, voice_weight, text_weight, voice_emotion, text_emotion,
                   fused, transcribed_text, safety, probe, probe_level, engine_fields,
                   raised, fused_again, wellness_vars, orchestrator_vars, generator,
                   backend_reply, cascade_index, invoked, last_outcome, detected>>

\* results of a detector: scores over its four labels (1e-4), confidence and
\* intensity rounded to 1e-3
sad_voice ==
    [primary_emotion |-> "sad", confidence |-> 600,
     all_emotions |-> [angry |-> 1000, happy |-> 1000, sad |-> 6000, neutral |-> 2000],
     intensity |-> 800]

\* no score at all: the sum is 0, nothing is normalised, max() takes the first key
no_scores ==
    [primary_emotion |-> "angry", confidence |-> 0,
     all_emotions |-> [angry |-> 0, happy |-> 0, sad |-> 0, neutral |-> 0],
     intensity |-> 1000]

\* "medium everything" of _classify_emotion, or Hume without a score
neutral_only ==
    [primary_emotion |-> "neutral", confidence |-> 1000,
     all_emotions |-> [angry |-> 0, happy |-> 0, sad |-> 0, neutral |-> 10000],
     intensity |-> 0]

nearly_neutral ==
    [primary_emotion |-> "neutral", confidence |-> 980,
     all_emotions |-> [angry |-> 100, happy |-> 100, sad |-> 0, neutral |-> 9800],
     intensity |-> 20]

DetectorResults == {sad_voice, no_scores, neutral_only, nearly_neutral, default_result}

\* what an awaited detect_emotion does: it returns a result or None, or an
\* exception gets past its own handler
DetectorOutcomes ==
    {[kind |-> "raise"], [kind |-> "none"]}
        \union {[kind |-> "result", result |-> r] : r \in DetectorResults}

\* the call begins: the list of detectors is built, nothing is awaited yet
detect_emotion_from_file ==
    /\ pc = "idle"
    /\ pc' = "cascade"
    /\ cascade_index' = 1
    /\ invoked' = <<>>
    /\ last_outcome' = NoOutcome
    /\ detected' = None
    /\ UNCHANGED <<hash_order, voice_weight, text_weight, voice_emotion, text_emotion,
                   fused, transcribed_text, safety, probe, probe_level, engine_fields,
                   raised, fused_again, wellness_vars, orchestrator_vars, generator,
                   backend_reply, detectors>>

\* one iteration of the loop
TryDetector ==
    /\ pc = "cascade"
    /\ cascade_index <= Len(detector_names)
    /\ IF ~detectors[cascade_index]
          THEN /\ cascade_index' = cascade_index + 1
               /\ UNCHANGED <<pc, invoked, last_outcome, detected>>
          ELSE \E outcome \in DetectorOutcomes :
                  /\ invoked' = Append(invoked, detector_names[cascade_index])
                  /\ last_outcome' = outcome
                  /\ IF accepted(outcome)
                        THEN /\ detected' = outcome.result
                             /\ pc' = "detected"
                             /\ cascade_index' = cascade_index
                        ELSE /\ cascade_index' = cascade_index + 1
                             /\ UNCHANGED <<pc, detected>>
    /\ UNCHANGED <<hash_order, voice_weight, text_weight, voice_emotion, text_emotion,
                   fused, transcribed_text, safety, probe, probe_level, engine_fields,
                   raised, fused_again, wellness_vars, orchestrator_vars, generator,
                   backend_reply, detectors>>

\* "Final fallback": the loop is over
FinalFallback ==
    /\ pc = "cascade"
    /\ cascade_index > Len(detector_names)
    /\ detected' = final_fallback
    /\ pc' = "detected"
    /\ UNCHANGED <<hash_order, voice_weight, text_weight, voice_emotion, text_emotion,
                   fused, transcribed_text, safety, probe, probe_level, engine_fields,
                   raised, fused_again, wellness_vars, orchestrator_vars, generator,
                   backend_reply, detectors, cascade_index, invoked, last_outcome>>

CascadeReturn ==
    /\ pc = "detected"
    /\ pc' = "idle"
    /\ cascade_index' = 0
    /\ invoked' = <<>>
    /\ last_outcome' = NoOutcome
    /\ detected' = None
    /\ UNCHANGED <<hash_order, voice_weight, text_weight, voice_emotion, text_emotion,
                   fused, transcribed_text, safety, probe, probe_level, engine_fields,
                   raised, fused_again, wellness_vars, orchestrator_vars, generator,
                   backend_reply, detectors>>

CascadeStep == detect_emotion_from_file \/ TryDetector \/ FinalFallback

NextCascade == CascadingEmotionDetector_init \/ CascadeStep \/ CascadeReturn

SpecCascade == Init /\ [][NextCascade]_vars

\* the event loop runs the awaited coroutine on: a started call goes on to its
\* next iteration
SpecCascadeLive == SpecCascade /\ WF_vars(CascadeStep)

-----------------------------------------------------------------------------
(* The response generator: construction and generate_response *)

BackendReplies == {Raises, Answers(""), Answers("  "), Answers(" I hear you. ")}

ComposerContexts ==
    { [transcribed_text |-> "hello", primary_emotion |-> e, confidence |-> 500,
       intensity |-> 500, intensity_level |-> l, key_phrases |-> <<>>,
       requires_crisis |-> c, wellness_suggestion |-> "None"] :
        e \in WellnessEmotions, l \in IntensityLevels, c \in BOOLEAN }

EmpathyResponseGenerator_init ==
    /\ pc = "idle"
    /\ \E openai_available \in BOOLEAN, ollama_available \in BOOLEAN, api_key \in BOOLEAN :
          generator' = generator_of(openai_available, ollama_available, api_key)
    /\ UNCHANGED <<pc, hash_order, voice_weight, text_weight, voice_emotion, text_emotion,
                   fused, transcribed_text, safety, probe, probe_level, engine_fields,
                   raised, fused_again, wellness_vars, orchestrator_vars, backend_reply,
                   detector_vars>>

GenerateResponse ==
    /\ pc = "idle"
    /\ \E context \in ComposerContexts, backend \in BackendReplies,
          anthropic_backend \in BackendReplies :
          /\ response_context' = context
          /\ backend_reply' = backend
          /\ full_system' = full_system_of(context)
          /\ composed' = generate_response(generator, backend, anthropic_backend, context)
    /\ pc' = "composed"
    /\ UNCHANGED <<hash_order, voice_weight, text_weight, voice_emotion, text_emotion,
                   fused, transcribed_text, safety, probe, probe_level, engine_fields,
                   raised, fused_again, wellness_vars, trace, reply, spoken,
                   response_audio_path, result, generator, detector_vars>>

ComposerReturn ==
    /\ pc = "composed"
    /\ pc' = "idle"
    /\ response_context' = None
    /\ backend_reply' = NoOutcome
    /\ full_system' = <<>>
    /\ composed' = ""
    /\ UNCHANGED <<hash_order, voice_weight, text_weight, voice_emotion, text_emotion,
                   fused, transcribed_text, safety, probe, probe_level, engine_fields,
                   raised, fused_again, wellness_vars, trace, reply, spoken,
                   response_audio_path, result, generator, detector_vars>>

NextComposer == EmpathyResponseGenerator_init \/ GenerateResponse \/ ComposerReturn

SpecComposer == Init /\ [][NextComposer]_vars

-----------------------------------------------------------------------------
(* app/pipeline.py: a run of process, stage by stage *)

\* what no stage of a run touches
outside_run ==
    <<hash_order, voice_weight, text_weight, engine_fields, probe, probe_level,
      fused_again, count, suggestions, suggestion_text, detector_vars>>

\* the stages, in the order of the step comments of process
stages ==
    << "audio_prep", "voice_estimation", "transcription", "text_analysis", "fusion",
       "safety_check", "wellness_selection", "response_composition", "synthesis",
       "result_assembly" >>

\* a stage that ran to its end
ran(stage) == <<"start:" \o stage, "end:" \o stage>>

\* what the transcriber returns: the cleaned text, which is empty for silence,
\* or its placeholder when transcription fails
RunTranscripts == {join(q) : q \in SentenceLists(1)} \union {"[Transcription failed]"}

\* analyze_text: "if not text or not text.strip()"
is_blank(text) == strip(text) = ""

\* the replies of the backend in a run
RunBackendReplies == {Raises, Answers(" I hear you. ")}

\* what tts.synthesize returns: the path of the file, or None
SynthesisResults == {"None", "tts_output.mp3"}

select_suggestion_always(safety_result, fused_emotion) ==
    [called |-> TRUE, wellness_suggestion |-> get_suggestion(fused_emotion)]

\* step 6: get_suggestion is called unless the verdict says to skip it
select_suggestion(safety_result, fused_emotion) ==
    IF ~safety_result.should_skip_suggestion
        THEN [called |-> TRUE, wellness_suggestion |-> get_suggestion(fused_emotion)]
    ELSE [called |-> FALSE, wellness_suggestion |-> "None"]

\* "Add crisis resources if needed"
add_crisis_resources(empathetic_response, safety_result) ==
    IF safety_result.is_crisis
        THEN empathetic_response \o get_resource_text(safety_result.crisis_resources)
    ELSE empathetic_response

\* the fields of the PipelineResult that come from the modelled stages
PipelineResult ==
    [transcribed_text |-> transcribed_text,
     fused_emotion |-> fused.primary_emotion,
     emotion_intensity |-> fused.intensity,
     intensity_level |-> fused.intensity_level,
     all_emotions |-> fused.all_emotions,
     safety_result |-> safety,
     empathetic_response |-> reply,
     wellness_suggestion |-> suggestion,
     response_audio_path |-> response_audio_path]

\* step 1: process_audio returns, or load_audio re-raises what librosa raised
\* and nothing in process catches it
AudioPrep ==
    /\ pc = "idle"
    /\ \E loaded \in BOOLEAN :
          IF loaded
             THEN /\ trace' = ran("audio_prep")
                  /\ pc' = "prepared"
                  /\ raised' = "None"
             ELSE /\ trace' = <<"start:audio_prep">>
                  /\ pc' = "raised"
                  /\ raised' = "Exception"
    /\ UNCHANGED <<outside_run, voice_emotion, text_emotion, fused, transcribed_text,
                   safety, suggestion, response_context, full_system, composed, reply,
                   spoken, response_audio_path, result, backend_reply, generator>>

\* step 2, line 124: calling the async method builds a coroutine object; none
\* of its body runs before it is awaited
CreateVoiceTask ==
    /\ pc = "prepared"
    /\ pc' = "voice_task"
    /\ UNCHANGED <<outside_run, voice_emotion, text_emotion, fused, transcribed_text,
                   safety, raised, suggestion, trace, response_context, full_system,
                   composed, reply, spoken, response_audio_path, result, backend_reply,
                   generator>>

\* step 2, line 127: the synchronous call returns the transcription
Transcribe ==
    /\ pc = "voice_task"
    /\ transcribed_text' \in RunTranscripts
    /\ trace' = trace \o ran("transcription")
    /\ pc' = "transcribed"
    /\ UNCHANGED <<outside_run, voice_emotion, text_emotion, fused, safety, raised,
                   suggestion, response_context, full_system, composed, reply, spoken,
                   response_audio_path, result, backend_reply, generator>>

\* step 2, line 130: the await runs detect_emotion_from_file to its end
AwaitVoice ==
    /\ pc = "transcribed"
    /\ voice_emotion' \in PipelineVoices
    /\ trace' = trace \o ran("voice_estimation")
    /\ pc' = "voice_done"
    /\ UNCHANGED <<outside_run, text_emotion, fused, transcribed_text, safety, raised,
                   suggestion, response_context, full_system, composed, reply, spoken,
                   response_audio_path, result, backend_reply, generator>>

\* step 3: the empty result for a blank text, else what the analysis gives
AnalyzeText ==
    /\ pc = "voice_done"
    /\ IF is_blank(transcribed_text) THEN text_emotion' = empty_result
       ELSE text_emotion' \in PipelineTexts
    /\ trace' = trace \o ran("text_analysis")
    /\ pc' = "analyzed"
    /\ UNCHANGED <<outside_run, voice_emotion, fused, transcribed_text, safety, raised,
                   suggestion, response_context, full_system, composed, reply, spoken,
                   response_audio_path, result, backend_reply, generator>>

\* step 4
Fuse ==
    /\ pc = "analyzed"
    /\ fused' \in FuseResults(hash_order, voice_weight, text_weight, voice_emotion,
                              text_emotion)
    /\ trace' = trace \o ran("fusion")
    /\ pc' = "run_fused"
    /\ UNCHANGED <<outside_run, voice_emotion, text_emotion, transcribed_text, safety,
                   raised, suggestion, response_context, full_system, composed, reply,
                   spoken, response_audio_path, result, backend_reply, generator>>

\* step 5
CheckSafety ==
    /\ pc = "run_fused"
    /\ safety' = check_safety(transcribed_text, fused)
    /\ trace' = trace \o ran("safety_check")
    /\ pc' = "run_checked"
    /\ UNCHANGED <<outside_run, voice_emotion, text_emotion, fused, transcribed_text,
                   raised, suggestion, response_context, full_system, composed, reply,
                   spoken, response_audio_path, result, backend_reply, generator>>

\* step 6
SelectSuggestion ==
    /\ pc = "run_checked"
    /\ LET selected == select_suggestion(safety, fused)
       IN  /\ suggestion' = selected.wellness_suggestion
           /\ trace' = trace \o <<"start:wellness_selection">>
                             \o (IF selected.called THEN <<"call:get_suggestion">> ELSE <<>>)
                             \o <<"end:wellness_selection">>
    /\ pc' = "selected"
    /\ UNCHANGED <<outside_run, voice_emotion, text_emotion, fused, transcribed_text,
                   safety, raised, response_context, full_system, composed, reply, spoken,
                   response_audio_path, result, backend_reply, generator>>

\* step 7: create_context, generate_response, and the resource text
Respond ==
    /\ pc = "selected"
    /\ \E backend \in RunBackendReplies, anthropic_backend \in RunBackendReplies :
          LET context == create_context(transcribed_text, fused, suggestion)
              empathetic_response ==
                  generate_response(generator, backend, anthropic_backend, context)
          IN  /\ response_context' = context
              /\ backend_reply' = backend
              /\ full_system' = full_system_of(context)
              /\ composed' = empathetic_response
              /\ reply' = add_crisis_resources(empathetic_response, safety)
    /\ trace' = trace \o ran("response_composition")
    /\ pc' = "responded"
    /\ UNCHANGED <<outside_run, voice_emotion, text_emotion, fused, transcribed_text,
                   safety, raised, suggestion, spoken, response_audio_path, result,
                   generator>>

\* step 8: synthesize returns None when it has no engine or fails
Synthesize ==
    /\ pc = "responded"
    /\ spoken' = reply
    /\ response_audio_path' \in SynthesisResults
    /\ trace' = trace \o ran("synthesis")
    /\ pc' = "synthesized"
    /\ UNCHANGED <<outside_run, voice_emotion, text_emotion, fused, transcribed_text,
                   safety, raised, suggestion, response_context, full_system, composed,
                   reply, result, backend_reply, generator>>

Assemble_before_synthesis ==
    /\ pc = "responded"
    /\ result' = PipelineResult
    /\ trace' = trace \o ran("result_assembly")
    /\ pc' = "returned"
    /\ UNCHANGED <<outside_run, voice_emotion, text_emotion, fused, transcribed_text,
                   safety, raised, suggestion, response_context, full_system, composed,
                   reply, spoken, response_audio_path, backend_reply, generator>>

\* "Complete - Build Result"
Assemble ==
    /\ pc = "synthesized"
    /\ result' = PipelineResult
    /\ trace' = trace \o ran("result_assembly")
    /\ pc' = "returned"
    /\ UNCHANGED <<outside_run, voice_emotion, text_emotion, fused, transcribed_text,
                   safety, raised, suggestion, response_context, full_system, composed,
                   reply, spoken, response_audio_path, backend_reply, generator>>

\* the caller has the result or the exception; the next run starts afresh
ProcessReturn ==
    /\ pc \in {"returned", "raised"}
    /\ pc' = "idle"
    /\ voice_emotion' = NoVoice
    /\ text_emotion' = NoText
    /\ fused' = NoFused
    /\ transcribed_text' = ""
    /\ safety' = NoSafety
    /\ raised' = "None"
    /\ suggestion' = "None"
    /\ trace' = <<>>
    /\ response_context' = None
    /\ backend_reply' = NoOutcome
    /\ full_system' = <<>>
    /\ composed' = ""
    /\ reply' = ""
    /\ spoken' = ""
    /\ response_audio_path' = "None"
    /\ result' = None
    /\ UNCHANGED <<outside_run, generator>>

NextProcess ==
    \/ EmpathyResponseGenerator_init
    \/ AudioPrep
    \/ CreateVoiceTask
    \/ Transcribe
    \/ AwaitVoice
    \/ AnalyzeText
    \/ Fuse
    \/ CheckSafety
    \/ SelectSuggestion
    \/ Respond
    \/ Synthesize
    \/ Assemble
    \/ ProcessReturn

SpecProcess == Init /\ [][NextProcess]_vars

-----------------------------------------------------------------------------
(* Claims about the fusion *)

\* the unrounded intensity of the current fusion
FusedIntensity == calculate_intensity(fused.all_emotions, voice_emotion.intensity)

KeywordInPhrases ==
    LET phrases_text == lower(join(text_emotion.key_phrases))
    IN  \E k \in Range(crisis_keywords) : Contains(phrases_text, k)

SadnessFearCombination ==
    /\ fused.all_emotions["sadness"] > sadness_limit
    /\ fused.all_emotions["fear"] > fear_limit
    /\ FusedIntensity > AsIntensity(high_threshold)

\* C1: requires_crisis_response is true if and only if the intensity is at least
\* 0.85, or a crisis keyword is a substring of the lower-cased, space-joined key
\* phrases, or fused sadness > 0.6 and fused fear > 0.4 and intensity > 0.70.
C1_CrisisIffAnySignal ==
    pc = "fused" =>
        (fused.requires_crisis_response <=>
            \/ FusedIntensity >= AsIntensity(crisis_threshold)
            \/ KeywordInPhrases
            \/ SadnessFearCombination)

\* a fusion flagged by a keyword that only the joined key phrases contain
C1_Witness ==
    /\ pc = "fused"
    /\ fused.requires_crisis_response
    /\ KeywordInPhrases
    /\ FusedIntensity < AsIntensity(crisis_threshold)
    /\ ~SadnessFearCombination

\* the weighted sum of one label's two scores with the default weights, in
\* units of 1e-6
DefaultWeightedSum(emotion) ==
    default_voice_weight * Get(voice_emotion.all_emotions, emotion)
        + default_text_weight * Get(text_emotion.all_emotions, emotion)

Abs(x) == IF x < 0 THEN -x ELSE x

\* C7 as stated: every fused score of a label of either distribution equals
\* 0.65 * voice + 0.35 * text exactly.
C7_ExactWeightedSum ==
    pc = "fused" =>
        \A e \in all_categories(voice_emotion, text_emotion) :
            WeightScale * fused.all_emotions[e] = DefaultWeightedSum(e)

\* C7 as amended: every fused score of a label of either distribution is
\* 0.65 * voice + 0.35 * text rounded to 4 decimal places, so it is a multiple
\* of 0.0001 within 0.00005 of the weighted sum, a missing label counting as 0.
C7_RoundedWeightedSum ==
    pc = "fused" =>
        \A e \in all_categories(voice_emotion, text_emotion) :
            2 * Abs(WeightScale * fused.all_emotions[e] - DefaultWeightedSum(e)) <= WeightScale

\* a label that only the voice distribution has, whose stored score is not the
\* exact weighted sum
C7_Witness ==
    /\ pc = "fused"
    /\ \E e \in DOMAIN voice_emotion.all_emotions \ DOMAIN text_emotion.all_emotions :
          WeightScale * fused.all_emotions[e] # DefaultWeightedSum(e)

\* sadness, anger, fear, anxiety, joy, neutral, then any extras: the first label
\* of that order whose fused score is maximal
FirstMaximalInFixedOrder ==
    LET extras == DOMAIN fused.all_emotions \ Range(core_emotions)
        maximal(e) == \A o \in DOMAIN fused.all_emotions :
                          fused.all_emotions[o] <= fused.all_emotions[e]
    IN  IF \E i \in 1..Len(core_emotions) : maximal(core_emotions[i])
        THEN {core_emotions[CHOOSE i \in 1..Len(core_emotions) :
                  /\ maximal(core_emotions[i])
                  /\ \A j \in 1..(i - 1) : ~maximal(core_emotions[j])]}
        ELSE {e \in extras : maximal(e)}

\* C8: the primary emotion has a maximal fused score, and among the labels that
\* tie for the maximum it is the first in the order sadness, anger, fear,
\* anxiety, joy, neutral, in every process run.
C8_TieBrokenByFixedOrder ==
    pc = "fused" => fused.primary_emotion \in FirstMaximalInFixedOrder

\* C9: the intensity is the weighted combination clipped to [0, 1]: both the
\* intensity computed and the intensity returned are between 0 and 1.
C9_IntensityInUnitInterval ==
    pc = "fused" =>
        /\ 0 <= FusedIntensity /\ FusedIntensity <= IntensityOne
        /\ 0 <= fused.intensity /\ fused.intensity <= MilliScale

\* the step mapping of _get_intensity_level applied to a returned intensity,
\* which is in units of 1e-3
LevelOfReturned(intensity) ==
    LET i == intensity * (ScoreScale \div MilliScale)
    IN  IF i >= crisis_threshold THEN "crisis"
        ELSE IF i >= high_threshold THEN "high"
        ELSE IF i >= moderate_threshold THEN "moderate"
        ELSE IF i >= mild_threshold THEN "mild"
        ELSE "low"

\* C11: in every result of fuse_emotions, intensity_level is the level that the
\* four-threshold step mapping assigns to the result's own intensity field.
C11_LevelOfReturnedIntensity ==
    pc = "fused" => fused.intensity_level = LevelOfReturned(fused.intensity)

\* C12: every fused distribution holds the six core labels; a core label that
\* neither input distribution has is there with score 0; and with input scores
\* that are all non-negative no fused score is negative.
C12_CoreLabelsBackfilled ==
    pc = "fused" =>
        /\ Range(core_emotions) \subseteq DOMAIN fused.all_emotions
        /\ \A e \in Range(core_emotions) \ all_categories(voice_emotion, text_emotion) :
              fused.all_emotions[e] = 0
        /\ \A e \in DOMAIN fused.all_emotions : fused.all_emotions[e] >= 0

\* sadness and fear come from neither estimate and are backfilled beside
\* positive fused scores
C12_Witness ==
    /\ pc = "fused"
    /\ {"sadness", "fear"} \cap all_categories(voice_emotion, text_emotion) = {}
    /\ fused.all_emotions["sadness"] = 0
    /\ fused.all_emotions["fear"] = 0
    /\ fused.all_emotions["anxiety"] > 0
    /\ fused.all_emotions["neutral"] > 0

LevelRank == [low |-> 0, mild |-> 1, moderate |-> 2, high |-> 3, crisis |-> 4]

\* the number of thresholds an intensity has reached
ThresholdsReached(intensity) ==
    Cardinality({t \in {mild_threshold, moderate_threshold, high_threshold, crisis_threshold} :
                    intensity >= AsIntensity(t)})

\* C10: the level of an intensity is "crisis" from 0.85, "high" from 0.70,
\* "moderate" from 0.50, "mild" from 0.30 and "low" below, and of two
\* intensities a <= b the level of a is not above the level of b.
C10_LevelIsMonotoneStep ==
    pc = "probed" =>
        /\ \A i \in 1..2 : LevelRank[probe_level[i]] = ThresholdsReached(probe[i])
        /\ probe[1] <= probe[2] => LevelRank[probe_level[1]] <= LevelRank[probe_level[2]]

\* 0.70 and 0.85 exactly: "high" and "crisis"
C10_Witness ==
    /\ pc = "probed"
    /\ probe = <<AsIntensity(high_threshold), AsIntensity(crisis_threshold)>>
    /\ probe_level = <<"high", "crisis">>

-----------------------------------------------------------------------------
(* Claims about the engine *)

\* C13: fuse_emotions fails with InvalidInput and returns nothing whenever an
\* estimate is None or has an empty distribution: a call that raises returns no
\* result, and every result comes from two non-empty distributions.
C13_RejectsNullOrEmpty ==
    /\ pc = "raised" => (raised # "None" /\ fused = NoFused)
    /\ pc = "fused" =>
          /\ DOMAIN voice_emotion.all_emotions # {}
          /\ DOMAIN text_emotion.all_emotions # {}

StrictlyAscending(t) ==
    /\ t.mild_threshold < t.moderate_threshold
    /\ t.moderate_threshold < t.high_threshold
    /\ t.high_threshold < t.crisis_threshold

\* C14: the thresholds of every constructed engine are strictly ascending,
\* mild < moderate < high < crisis: a config that is not is rejected by the
\* constructor.
C14_ThresholdsAscending == StrictlyAscending(thresholds)

\* C15: after every call of adjust_weights, whatever was supplied and whatever
\* calls came before, voice_weight + text_weight = 1.
C15_WeightsSumToOne ==
    pc = "adjusted" => voice_weight + text_weight = weight_unit

-----------------------------------------------------------------------------
(* Claims about the safety check *)

Matches(patterns) ==
    LET text_lower == lower(transcribed_text)
    IN  \E p \in Range(patterns) : Contains(text_lower, p)

NormalVerdict ==
    /\ ~safety.is_crisis
    /\ safety.crisis_type = "None"
    /\ ~safety.should_skip_suggestion
    /\ safety.priority_message = "None"
    /\ safety.crisis_resources = <<>>

\* C2: a transcript that contains a self-harm phrase, in any letter case, gets
\* is_crisis = true and crisis_type "self_harm", whatever the fused intensity and
\* crisis flag and whatever hopelessness phrase or crisis keyword it also holds.
C2_SelfHarmFirst ==
    (pc = "checked" /\ Matches(self_harm_patterns)) =>
        (safety.is_crisis /\ safety.crisis_type = "self_harm")

\* a self-harm phrase in capitals beside a hopelessness phrase that is also a
\* crisis keyword, with the intensity gate open and the fused flag set
C2_Witness ==
    /\ pc = "checked"
    /\ Contains(transcribed_text, "END MY LIFE")
    /\ Matches(hopelessness_patterns)
    /\ Matches(crisis_keywords)
    /\ fused.intensity >= hopelessness_intensity
    /\ fused.requires_crisis_response
    /\ safety.crisis_type = "self_harm"

\* C3: without a self-harm phrase the crisis type is "hopelessness" if a
\* hopelessness phrase matches and the fused intensity is at least 0.70, else
\* "crisis_keywords" if a crisis keyword matches, else "extreme_distress" if the
\* fused result requires a crisis response, else there is no crisis.
C3_PriorityOrder ==
    (pc = "checked" /\ ~Matches(self_harm_patterns)) =>
        /\ safety.crisis_type =
              IF Matches(hopelessness_patterns) /\ fused.intensity >= hopelessness_intensity
                  THEN "hopelessness"
              ELSE IF Matches(crisis_keywords) THEN "crisis_keywords"
              ELSE IF fused.requires_crisis_response THEN "extreme_distress"
              ELSE "None"
        /\ safety.is_crisis <=> safety.crisis_type # "None"
        /\ (fused.intensity < hopelessness_intensity => safety.crisis_type # "hopelessness")

\* a hopelessness phrase that is no crisis keyword, below the gate, with the
\* fused flag set: the type falls through to "extreme_distress"
C3_Witness ==
    /\ pc = "checked"
    /\ ~Matches(self_harm_patterns)
    /\ Matches(hopelessness_patterns)
    /\ ~Matches(crisis_keywords)
    /\ fused.intensity < hopelessness_intensity
    /\ fused.requires_crisis_response
    /\ safety.crisis_type = "extreme_distress"

StaticMessage ==
    [self_harm |-> "I hear that you're in a lot of pain right now. ",
     hopelessness |-> "I can hear how heavy everything feels right now. ",
     crisis_keywords |-> "What you're going through sounds really difficult. ",
     extreme_distress |-> "I can hear how overwhelmed you're feeling. "]

\* the priority message opens with the first sentence of the crisis type's message
MessageOfType ==
    /\ safety.crisis_type \in DOMAIN StaticMessage
    /\ LET opening == StaticMessage[safety.crisis_type]
       IN  /\ Len(safety.priority_message) > Len(opening)
           /\ SubSeq(safety.priority_message, 1, Len(opening)) = opening

\* C4 as stated: a crisis verdict skips the suggestion, carries the message of
\* its crisis type and a non-empty resources list of at most 3 entries.
C4_CrisisVerdictAtMostThree ==
    (pc = "checked" /\ safety.is_crisis) =>
        /\ safety.should_skip_suggestion
        /\ MessageOfType
        /\ Len(safety.crisis_resources) >= 1
        /\ Len(safety.crisis_resources) <= 3

\* C4 as amended: a crisis verdict skips the suggestion, carries the message of
\* its crisis type and one resource string "location: resource" for each of the
\* 4 configured locations, in the configured order.
C4_CrisisVerdictAllResources ==
    (pc = "checked" /\ safety.is_crisis) =>
        /\ safety.should_skip_suggestion
        /\ MessageOfType
        /\ Len(safety.crisis_resources) = Len(crisis_resources)
        /\ Len(safety.crisis_resources) = 4
        /\ \A i \in 1..Len(crisis_resources) :
              /\ Contains(safety.crisis_resources[i], crisis_resources[i][1])
              /\ Contains(safety.crisis_resources[i], crisis_resources[i][2])

\* a crisis of each kind of origin: here the keyword list
C4_Witness ==
    /\ pc = "checked"
    /\ safety.is_crisis
    /\ safety.crisis_type = "crisis_keywords"
    /\ Len(safety.crisis_resources) = 4

\* C5: without a crisis, should_skip_suggestion and is_high_distress are true
\* exactly when the level is high or crisis or an extreme-distress phrase
\* matches, and then there is no priority message and no resource; otherwise the
\* verdict is the normal one.
C5_ComfortFirst ==
    (pc = "checked" /\ ~safety.is_crisis) =>
        LET distress == \/ fused.intensity_level \in {"high", "crisis"}
                        \/ Matches(extreme_distress_patterns)
        IN  /\ safety.should_skip_suggestion <=> distress
            /\ safety.is_high_distress <=> distress
            /\ safety.priority_message = "None"
            /\ safety.crisis_resources = <<>>
            /\ ~distress => NormalVerdict

\* an extreme-distress phrase at a low level: comfort first, no crisis
C5_Witness ==
    /\ pc = "checked"
    /\ ~safety.is_crisis
    /\ Matches(extreme_distress_patterns)
    /\ fused.intensity_level = "low"
    /\ safety.should_skip_suggestion
    /\ safety.recommended_action = "comfort_first"

\* C6 as stated: an empty transcript gets the normal verdict, whatever the fused
\* result.
C6_EmptyTextNormal ==
    (pc = "checked" /\ transcribed_text = "") => NormalVerdict

\* C6 as amended: an empty transcript gets a verdict (nothing is raised) that
\* the fused result alone decides, no phrase matching: a crisis of type
\* "extreme_distress" exactly when the fused result requires a crisis response,
\* else comfort first exactly when the level is high or crisis, else the normal
\* verdict.
C6_EmptyTextDecidedByFusion ==
    (pc = "checked" /\ transcribed_text = "") =>
        /\ safety.is_crisis <=> fused.requires_crisis_response
        /\ safety.is_crisis => safety.crisis_type = "extreme_distress"
        /\ ~safety.is_crisis =>
              (safety.should_skip_suggestion <=> fused.intensity_level \in {"high", "crisis"})
        /\ (~fused.requires_crisis_response /\ fused.intensity_level \notin {"high", "crisis"})
              => NormalVerdict

\* an empty transcript after a calm fusion: the normal verdict
C6_Witness ==
    /\ pc = "checked"
    /\ transcribed_text = ""
    /\ ~fused.requires_crisis_response
    /\ fused.intensity_level = "low"
    /\ NormalVerdict
    /\ safety.recommended_action = "normal"

-----------------------------------------------------------------------------
(* Claims about the wellness engine *)

\* the candidate list of get_suggestion: the list the configuration gives the
\* primary emotion, the list of "neutral" for a label it does not have
CandidateModules ==
    IF fused.primary_emotion \in DOMAIN emotion_modules
    THEN emotion_modules[fused.primary_emotion]
    ELSE emotion_modules["neutral"]

\* the first element of list that is in S, if there is one
FirstOf(list, S) ==
    list[CHOOSE i \in 1..Len(list) :
            /\ list[i] \in S
            /\ \A j \in 1..(i - 1) : list[j] \notin S]

CalmingOverride == <<"breathing", "grounding", "safety_grounding", "reassurance">>

\* C17: get_suggestion returns one catalog entry, never None, fixed by the
\* primary emotion and the level: at high or crisis the first module of
\* breathing, grounding, safety_grounding, reassurance that occurs in the
\* candidate list; otherwise, or if none occurs, the first module of the
\* candidate list that the catalog has; "breathing" if there is none.
C17_OneSuggestion ==
    pc \in {"suggested", "worded"} =>
        /\ suggestion \in DOMAIN activities
        /\ suggestion =
              IF /\ fused.intensity_level \in {"high", "crisis"}
                 /\ Range(CalmingOverride) \cap Range(CandidateModules) # {}
              THEN FirstOf(CalmingOverride, Range(CandidateModules))
              ELSE IF Range(CandidateModules) \cap DOMAIN activities # {}
                   THEN FirstOf(CandidateModules, DOMAIN activities)
                   ELSE "breathing"

\* anxiety at high: grounding, the last of the candidate list, is preferred to
\* its first module
C17_Witness ==
    /\ pc = "suggested"
    /\ fused.primary_emotion = "anxiety"
    /\ fused.intensity_level = "high"
    /\ suggestion = "grounding"
    /\ CandidateModules[1] = "mindfulness"

\* C18: get_all_suggestions never returns more than count entries and never
\* the same catalog entry twice, and with count = 4 it returns exactly 4
\* entries for each of the 8 configured emotion labels at each level.
C18_CountAndDistinct ==
    pc = "listed" =>
        /\ Len(suggestions) <= count
        /\ \A i, j \in 1..Len(suggestions) : suggestions[i] = suggestions[j] => i = j
        /\ Range(suggestions) \subseteq DOMAIN activities
        /\ (count = 4 /\ fused.primary_emotion \in Range(supported_emotions))
              => Len(suggestions) = 4

\* four cards for "confusion", a label with no activity list of its own, at a
\* level whose priority block alone fills the list
C18_Witness ==
    /\ pc = "listed"
    /\ count = 4
    /\ fused.primary_emotion = "confusion"
    /\ fused.intensity_level = "crisis"
    /\ Len(suggestions) = 4

\* the candidate list of get_all_suggestions: the activity list of the
\* lower-cased primary emotion, the list of "neutral" for a label without one
CandidateActivities ==
    LET primary_emotion == lower(fused.primary_emotion)
    IN  IF primary_emotion \in DOMAIN emotion_activity_map
        THEN emotion_activity_map[primary_emotion]
        ELSE emotion_activity_map["neutral"]

\* the first n elements of list
Take(list, n) == SubSeq(list, 1, IF n < Len(list) THEN n ELSE Len(list))

\* the catalog entries of list that are not in S, in list order, each once
RECURSIVE NewEntries(_, _)
NewEntries(list, S) ==
    IF list = <<>> THEN <<>>
    ELSE IF Head(list) \in S \/ Head(list) \notin DOMAIN activities
         THEN NewEntries(Tail(list), S)
         ELSE <<Head(list)>> \o NewEntries(Tail(list), S \union {Head(list)})

\* a priority block from calming at high or crisis, then the candidates not yet
\* listed, then the fallbacks not yet listed, cut at count
ThreePhases(calming) ==
    LET block == IF fused.intensity_level \in {"high", "crisis"}
                 THEN Take(NewEntries(calming, {}), count) ELSE <<>>
        specific == Take(block \o NewEntries(CandidateActivities, Range(block)), count)
    IN  Take(specific \o NewEntries(general_fallbacks, Range(specific)), count)

FirstIsFirstCandidate ==
    (fused.intensity_level \notin {"high", "crisis"} /\ count >= 1) =>
        suggestions[1] = FirstOf(CandidateActivities, DOMAIN activities)

\* C19 as stated: the list is a priority block taken from the calming-override
\* list of get_suggestion (breathing, grounding, safety_grounding, reassurance)
\* only at high or crisis, then the candidates in list order without
\* duplicates, then the fallbacks breathing, mindfulness, grounding, gratitude,
\* up to count; below high the first suggestion is the first candidate.
C19_PriorityFromOverrideList ==
    pc = "listed" =>
        /\ suggestions = ThreePhases(CalmingOverride)
        /\ FirstIsFirstCandidate

\* C19 as amended: the same three phases, the priority block being taken from
\* the list breathing, box_breathing, grounding, safety_grounding, reassurance,
\* cold_water_reset, which is not the override list of get_suggestion; below
\* high, with a count of at least 1, the first suggestion is the first
\* candidate.
C19_PriorityFromCalmingActivities ==
    pc = "listed" =>
        /\ suggestions =
              ThreePhases(<<"breathing", "box_breathing", "grounding", "safety_grounding",
                            "reassurance", "cold_water_reset">>)
        /\ FirstIsFirstCandidate

\* fear at high with room for all three phases: six calming activities, the
\* two candidates not among them, the two fallbacks not yet listed
C19_Witness ==
    /\ pc = "listed"
    /\ fused.primary_emotion = "fear"
    /\ fused.intensity_level = "high"
    /\ count = MaxCount
    /\ suggestions =
          <<"breathing", "box_breathing", "grounding", "safety_grounding", "reassurance",
            "cold_water_reset", "calming_exercises", "body_scan", "mindfulness", "gratitude">>

StartsWith(text, prefix) ==
    Len(text) >= Len(prefix) /\ SubSeq(text, 1, Len(prefix)) = prefix

\* the invitation assigned to each level
Invitation ==
    [low |-> "You might find it helpful to try",
     mild |-> "You might find it helpful to try",
     moderate |-> "If it feels right, you might try",
     high |-> "If you'd like, there's something gentle that might help",
     crisis |-> "If you'd like, there's something gentle that might help"]

\* C20: the text opens with the invitation of the level alone: the gentle one
\* for high and crisis, "If it feels right, you might try" for moderate, "You
\* might find it helpful to try" for low and mild; and the text of a level
\* never opens with the different invitation of a lower level.
C20_InvitationByLevel ==
    pc = "worded" =>
        /\ StartsWith(suggestion_text, Invitation[fused.intensity_level] \o ": ")
        /\ \A a, b \in IntensityLevels :
              (LevelRank[a] < LevelRank[b] /\ Invitation[a] # Invitation[b]) =>
                  ~StartsWith(get_suggestion_text(suggestion,
                                                  [fused EXCEPT !.intensity_level = b]),
                              Invitation[a])

\* a moderate level: the middle invitation, then the lower-cased title
C20_Witness ==
    /\ pc = "worded"
    /\ fused.intensity_level = "moderate"
    /\ suggestion = "general_wellness"
    /\ StartsWith(suggestion_text, "If it feels right, you might try: wellness check-in. ")


-----------------------------------------------------------------------------
(* Claims about the orchestrator *)

Occurred(event) == \E i \in 1..Len(trace) : trace[i] = event

\* the position of an event of the trace
IndexOf(event) == CHOOSE i \in 1..Len(trace) : trace[i] = event

Precedes(first, second) ==
    Occurred(first) /\ (Occurred(second) => IndexOf(first) < IndexOf(second))

\* C21: voice-emotion estimation and transcription run concurrently: once one
\* of the two has finished, both had been started before that; and text-emotion
\* analysis starts only after both have finished.
C21_BothStartedBeforeEitherFinished ==
    /\ \A finished \in {"end:voice_estimation", "end:transcription"} :
          Occurred(finished) =>
              /\ Precedes("start:voice_estimation", finished)
              /\ Precedes("start:transcription", finished)
    /\ Occurred("start:text_analysis") =>
          /\ Precedes("end:voice_estimation", "start:text_analysis")
          /\ Precedes("end:transcription", "start:text_analysis")

\* the step of process a stage belongs to
step_of ==
    [audio_prep |-> 1, voice_estimation |-> 2, transcription |-> 2, text_analysis |-> 3,
     fusion |-> 4, safety_check |-> 5, wellness_selection |-> 6,
     response_composition |-> 7, synthesis |-> 8, result_assembly |-> 9]

StageNames == Range(stages)

\* for the start of each stage, the ends of the stages of the steps before it
MustHaveEnded ==
    [e \in {"start:" \o b : b \in StageNames} |->
        {"end:" \o a : a \in {x \in StageNames :
            \E b \in StageNames : e = "start:" \o b /\ step_of[x] < step_of[b]}}]

StartsInOrder ==
    \A j \in 1..Len(trace) :
        trace[j] \in DOMAIN MustHaveEnded =>
            MustHaveEnded[trace[j]] \subseteq {trace[i] : i \in 1..(j - 1)}

NoEventTwice == \A i \in 1..Len(trace), j \in 1..Len(trace) : trace[i] = trace[j] => i = j

AllStagesCompleted == {"end:" \o a : a \in StageNames} \subseteq Range(trace)

\* C22: the stages start in the order of the steps, a stage starts only when
\* every stage of the steps before it has completed, no stage runs twice in a
\* run, and a PipelineResult exists only when all stages have completed.
C22_StagesInOrderOnceEach ==
    (pc \notin {"idle", "composed", "cascade", "detected"}) =>
        /\ StartsInOrder
        /\ NoEventTwice
        /\ (result # None) => (pc = "returned" /\ AllStagesCompleted)
        /\ (pc = "returned") => (result # None)

C22_Witness ==
    /\ pc = "returned"
    /\ result # None
    /\ AllStagesCompleted
    /\ result.response_audio_path # "None"

\* C23: in a completed run get_suggestion was called iff the verdict does not
\* ask to skip the suggestion, the result has no suggestion iff it asks to skip
\* it, and no result has both is_crisis and a suggestion.
C23_SuggestionIffNotSkipped ==
    (pc = "returned") =>
        /\ Occurred("call:get_suggestion") <=> ~result.safety_result.should_skip_suggestion
        /\ (result.wellness_suggestion = "None") <=> result.safety_result.should_skip_suggestion
        /\ ~(result.safety_result.is_crisis /\ result.wellness_suggestion # "None")

C23_Witness ==
    /\ pc = "returned"
    /\ result.safety_result.is_crisis
    /\ result.wellness_suggestion = "None"
    /\ ~Occurred("call:get_suggestion")

\* the resource block: its heading and the first three configured resources
ResourceBlock ==
    "\n\nIf you need support right now:\n"
        \o "* US: 988 Suicide & Crisis Lifeline: Call or text 988\n"
        \o "* UK: Samaritans: 116 123\n"
        \o "* India: iCall: 9152987821 | Vandrevala Foundation: 1860-2662-345\n"

\* C24: the reply is the composer's text followed by the resource block (three
\* resources) iff the verdict is a crisis, and the composer's text alone
\* otherwise; the synthesizer is given the reply that the result carries.
C24_ResourcesAppendedBeforeSynthesis ==
    (pc \in {"synthesized", "returned"}) =>
        /\ (reply = composed \o ResourceBlock) <=> safety.is_crisis
        /\ ~safety.is_crisis => reply = composed
        /\ spoken = reply
        /\ (pc = "returned") => result.empathetic_response = spoken

C24_Witness ==
    /\ pc = "returned"
    /\ safety.is_crisis
    /\ result.empathetic_response = composed \o ResourceBlock
    /\ spoken = result.empathetic_response

\* C25: no run ends with an exception: whichever stage fails, the run returns
\* a PipelineResult, whose reply audio is absent when the synthesizer gave none.
C25_AlwaysReturnsAResult ==
    /\ pc # "raised"
    /\ raised = "None"
    /\ (pc = "returned") =>
          /\ result # None
          /\ result.response_audio_path = response_audio_path

\* C29: when the verdict is a crisis, the context handed to the composer has
\* requires_crisis set and the system prompt carries the crisis add-on.
C29_CrisisVerdictReachesComposer ==
    (pc \in {"responded", "synthesized", "returned"} /\ safety.is_crisis) =>
        /\ response_context.requires_crisis
        /\ "crisis_addon" \in Range(full_system)

-----------------------------------------------------------------------------
(* Claims about the cascading voice detector *)

\* C26: the estimate detect_emotion_from_file returns has its primary emotion
\* and every label of its distribution in the canonical vocabulary.
C26_CanonicalLabels ==
    (pc = "detected") =>
        /\ detected.primary_emotion \in Range(supported_emotions)
        /\ DOMAIN detected.all_emotions \subseteq Range(supported_emotions)

\* a detector's answer that the cascade takes: a result whose confidence is
\* above 0.1 and that is not neutral with confidence 0.99 or more
Acceptable(outcome) ==
    /\ outcome.kind = "result"
    /\ outcome.result.confidence > 100
    /\ (outcome.result.primary_emotion # "neutral" \/ outcome.result.confidence < 990)

\* the available detectors, in the order Hume, emotion2vec, HuBERT, Wav2Vec2,
\* Audio Features
AvailableInOrder ==
    LET order == <<"Hume AI", "emotion2vec", "HuBERT", "Wav2Vec2", "Audio Features">>
        RECURSIVE from(_)
        from(i) == IF i > 5 THEN <<>>
                   ELSE (IF detectors[i] THEN <<order[i]>> ELSE <<>>) \o from(i + 1)
    IN  from(1)

IsPrefix(p, q) == Len(p) <= Len(q) /\ SubSeq(q, 1, Len(p)) = p

FirstAcceptedWins ==
    /\ raised = "None"
    /\ (pc \in {"cascade", "detected"}) => IsPrefix(invoked, AvailableInOrder)
    /\ (pc = "cascade") => ~Acceptable(last_outcome)
    /\ (pc = "detected") =>
          /\ detected # None
          /\ IF Acceptable(last_outcome) THEN detected = last_outcome.result
             ELSE /\ invoked = AvailableInOrder
                  /\ detected.primary_emotion = "neutral"
                  /\ detected.confidence = 500
                  /\ detected.intensity = 300

\* C28: the detectors are tried in the fixed order, unavailable ones skipped;
\* the first accepted result is returned and no detector is tried after it; a
\* detector that raises or returns nothing is passed over; when none is accepted
\* the fixed neutral default is returned; and a started call always ends with
\* an estimate.
C28_FirstAcceptedWins == []FirstAcceptedWins /\ ((pc = "cascade") ~> (pc = "detected"))

C28_Witness ==
    /\ pc = "detected"
    /\ Len(invoked) >= 3
    /\ Acceptable(last_outcome)
    /\ detected = last_outcome.result

-----------------------------------------------------------------------------
(* Claims about the response generator *)

\* the text a backend yielded, "" if none did
BackendText ==
    IF generator.llm_provider \in {"openai", "ollama"} /\ backend_reply.kind = "text"
        THEN strip(backend_reply.text)
    ELSE ""

StaticFallback(c) ==
    CASE c.requires_crisis \/ c.intensity_level = "crisis" -> crisis_fallback
      [] OTHER ->
            IF c.primary_emotion \in DOMAIN fallbacks THEN fallbacks[c.primary_emotion]
            ELSE fallbacks["neutral"]

\* C27: generate_response never returns an empty text; when no backend yields
\* text it returns the static fallback: the crisis text if the context requires
\* crisis or its level is crisis, else the text of its primary emotion, else
\* the neutral text.
C27_AlwaysSomeText ==
    (pc = "composed") =>
        /\ composed # ""
        /\ (BackendText = "") => composed = StaticFallback(response_context)

C27_Witness ==
    /\ pc = "composed"
    /\ generator.llm_provider = "openai"
    /\ backend_reply = Answers("  ")
    /\ response_context.intensity_level = "crisis"
    /\ ~response_context.requires_crisis
    /\ composed = crisis_fallback

-----------------------------------------------------------------------------
(* Claims about the two selectors of the wellness engine *)

\* C30: for each of the eight configured labels and each level, the suggestion
\* of get_suggestion is among the four of get_all_suggestions for the same result.
C30_SingleAmongFour ==
    (pc = "suggested" /\ fused.primary_emotion \in Range(supported_emotions)) =>
        suggestion \in Range(get_all_suggestions(fused, 4))

====
